---- MODULE Spec2Model ----
(***************************************************************************)
(* Model of the placement-mail extraction pipeline                         *)
(* (app/services/langgraph_pipeline.py and the helpers it calls).          *)
(*                                                                         *)
(* Representation of Python values                                         *)
(*   str    a tuple of chunks (TLA+ strings).  Names that the code         *)
(*          lower-cases, strips or title-cases are spelled one character   *)
(*          per chunk, so that those functions are computed, not assumed.  *)
(*   None   the tuple <<"None">>                                           *)
(*   ""     the empty tuple                                                *)
(*   dict   a function from key strings to values ({} is the empty one)    *)
(*   text   a tuple of lines, each line a TLA+ string holding its text     *)
(*   confidence_score  an integer number of eighths (n stands for n/8)     *)
(***************************************************************************)
EXTENDS Integers, Sequences, FiniteSets, TLC

VARIABLES
    \* ---- PipelineState (langgraph_pipeline.py:41-71) ----
    sender, subject, raw_body,              \* input
    is_allowed_sender, plain_text, clean_text, trimmed_text, excerpts,
    regex_data, gemini_data, extracted_data, validated_data,
    status, is_duplicate, error_message,
    api_key, use_gemini, existing_drives,   \* config
    \* ---- control ----
    pc,                                     \* next node of the graph, "done" or "raised"
    \* ---- batch endpoint (debug.py process_with_pipeline) ----
    processed_results,                      \* pipeline_result_to_json of every run kept
    merged_results,                         \* what merge_company_results returned
    results_in,                             \* history: processed_results as passed to the merge
    \* ---- a second run on the same message (history) ----
    run,                                    \* 1 in the first run, 2 in the repeated one
    first_run,                              \* how the first run ended: its record and pc
    choices,                                \* what the helpers and the service did in the first run
    \* ---- database and webhook (gmail_events.py gmail_events) ----
    emails,                                 \* rows of table emails, in insertion order
    placement_drives,                       \* rows of table placement_drives, in insertion order
    sync_state,                             \* value stored under gmail_history_id, None if absent
    relisted,                               \* history: the latest notification listed only ids handled before
    handled,                                \* history: how each message id was first handled
    \* ---- database sessions at work side by side (db_service.py) ----
    calls                                   \* per session: the call under way and where it stands

record == <<is_allowed_sender, plain_text, clean_text, trimmed_text, excerpts,
            regex_data, gemini_data, extracted_data, validated_data,
            status, is_duplicate, error_message>>
inputs == <<sender, subject, raw_body, api_key, use_gemini, existing_drives>>
batch  == <<processed_results, merged_results, results_in>>
rerun  == <<run, first_run>>
store  == <<emails, placement_drives, sync_state>>
hook   == <<relisted, handled>>
outer  == <<batch, rerun, store, hook, calls>>
vars   == <<inputs, record, pc, outer, choices>>

(***************************************************************************)
(* Python values                                                           *)
(***************************************************************************)
None     == <<"None">>
EmptyStr == <<>>
NonStr   == <<"#123">>          \* a JSON number where a string is expected
EmptyDict == <<>>
Sessions == {1, 2}
\* a session with no call under way
Idle == [op |-> "none", pc |-> "idle", args |-> EmptyDict, existing |-> <<>>,
         returned |-> 0, lost |-> FALSE]
\* empty tables, no notification received yet, no call under way
NoRows ==
    /\ emails = <<>>
    /\ placement_drives = <<>>
    /\ sync_state = None
    /\ relisted = FALSE
    /\ handled = EmptyDict
    /\ calls = [p \in Sessions |-> Idle]

Zero     == <<"0">>             \* the number 0 (0.0)

Falsy(v) == v = None \/ v = EmptyStr \/ v = Zero      \* `not v`
Truthy(v) == ~Falsy(v)
IsStr(v) == v # None /\ v # NonStr

Get(d, k) == IF k \in DOMAIN d THEN d[k] ELSE None      \* dict.get(k)
Put(d, k, v) == [x \in DOMAIN d \cup {k} |-> IF x = k THEN v ELSE d[x]]
Update(d, u) == [x \in DOMAIN d \cup DOMAIN u |-> IF x \in DOMAIN u THEN u[x] ELSE d[x]]

Max(a, b) == IF a >= b THEN a ELSE b
Min(a, b) == IF a <= b THEN a ELSE b

UC == <<"A","B","C","D","E","F","G","H","I","J","K","L","M",
        "N","O","P","Q","R","S","T","U","V","W","X","Y","Z">>
LC == <<"a","b","c","d","e","f","g","h","i","j","k","l","m",
        "n","o","p","q","r","s","t","u","v","w","x","y","z">>
IsUpper(c) == \E i \in DOMAIN UC : UC[i] = c
IsLower(c) == \E i \in DOMAIN LC : LC[i] = c
IsLetter(c) == IsUpper(c) \/ IsLower(c)
IsSpace(c) == c = " "

\* multi-character chunks whose lower-case form differs
LowerTok(c) ==
    CASE c = "Placement Cell <"        -> "placement cell <"
      [] c = "Placement@IIIT-BH.ac.in" -> "placement@iiit-bh.ac.in"
      [] c = "Acme"                    -> "acme"
      [] c = "ACME Pvt Ltd"            -> "acme pvt ltd"
      [] c = "Campus Drive"            -> "campus drive"
      [] c = "Campus Recruitment Drive" -> "campus recruitment drive"
      [] c = "Internship Drive"        -> "internship drive"
      [] c = "Online Test"             -> "online test"
      [] c = "Holiday Notice"          -> "holiday notice"
      [] c = "FTE"                     -> "fte"
      [] c = "Internship"              -> "internship"
      [] c = "Full Time"               -> "full time"
      [] c = "Contract"                -> "contract"
      [] OTHER -> c
\* multi-character chunks whose upper-case form differs
UpperTok(c) ==
    CASE c = "Computer Science" -> "COMPUTER SCIENCE"
      [] c = "cse"              -> "CSE"
      [] OTHER -> c

ToLower(c) == IF IsUpper(c) THEN LC[CHOOSE i \in DOMAIN UC : UC[i] = c] ELSE LowerTok(c)
ToUpper(c) == IF IsLower(c) THEN UC[CHOOSE i \in DOMAIN LC : LC[i] = c] ELSE UpperTok(c)

Lower(s) == [i \in DOMAIN s |-> ToLower(s[i])]          \* str.lower()
Upper(s) == [i \in DOMAIN s |-> ToUpper(s[i])]          \* str.upper()

RECURSIVE LStrip(_), RStrip(_)
LStrip(s) == IF s # <<>> /\ IsSpace(Head(s)) THEN LStrip(Tail(s)) ELSE s
RStrip(s) == IF s # <<>> /\ IsSpace(s[Len(s)]) THEN RStrip(SubSeq(s, 1, Len(s) - 1)) ELSE s
Strip(s) == RStrip(LStrip(s))                           \* str.strip()

\* str.title(): a letter is upper-cased after a non-letter, lower-cased after a letter
Title(s) == [i \in DOMAIN s |->
               IF i = 1 \/ ~IsLetter(s[i - 1]) THEN ToUpper(s[i]) ELSE ToLower(s[i])]

StartsWith(s, p) == Len(s) >= Len(p) /\ SubSeq(s, 1, Len(p)) = p
Contains(s, p) == \E i \in 1..(Len(s) - Len(p) + 1) : SubSeq(s, i, i + Len(p) - 1) = p

(***************************************************************************)
(* Configuration and inputs                                                *)
(***************************************************************************)
\* langgraph_pipeline.py:34-38
ALLOWED_SENDERS == { <<"navanita@iiit-bh.ac.in">>, <<"rajashree@iiit-bh.ac.in">>,
                     <<"placement@iiit-bh.ac.in">> }
\* langgraph_pipeline.py:90-92
drive_keywords == { <<"campus drive">>, <<"recruitment drive">>, <<"campus recruitment">>,
                    <<"placement drive">>, <<"pool campus">>, <<"hiring drive">>,
                    <<"internship drive">>, <<"fte drive">>, <<"online test">> }

Acme == <<"A","c","m","e">>
ACME == <<"A","C","M","E">>
Beta == <<"B","e","t","a">>

SenderTPO   == <<"Placement Cell <", "Placement@IIIT-BH.ac.in", ">">>
SenderOther == <<"hr@acme.com">>
Senders == {SenderTPO, SenderOther, None}

SubjAcme    == <<"Acme", " ", "Campus Drive">>
SubjACME    == <<"Campus Recruitment Drive", " || ", "ACME Pvt Ltd">>
SubjNoName  == <<"Online Test">>
SubjNotice  == <<"Holiday Notice">>
Subjects == {SubjAcme, SubjACME, SubjNoName, SubjNotice}

(***************************************************************************)
(* Node 1: filter_sender_node                                              *)
(***************************************************************************)
\* state["sender"].lower() raises AttributeError when sender is not a str;
\* the node has no handler, so the exception leaves pipeline.invoke
FilterSenderRaises == sender = None

SenderAllowed == \E a \in ALLOWED_SENDERS : Contains(Lower(sender), a)
IsDriveEmail == \E kw \in drive_keywords : Contains(Lower(subject), kw)

filter_sender_node ==
    /\ pc = "filter_sender"
    /\ IF FilterSenderRaises
       THEN /\ pc' = "raised"
            /\ UNCHANGED record
       ELSE /\ pc' = "html_to_text"
            /\ IF ~SenderAllowed
               THEN /\ is_allowed_sender' = FALSE
                    /\ status' = "filtered"
                    /\ error_message' = <<"Sender not allowed: ">> \o sender
               ELSE IF ~IsDriveEmail
               THEN /\ is_allowed_sender' = TRUE
                    /\ status' = "filtered"
                    /\ error_message' = <<"Not a campus drive email: ">> \o subject
               ELSE /\ is_allowed_sender' = TRUE
                    /\ status' = "pending"
                    /\ UNCHANGED error_message
            /\ UNCHANGED <<plain_text, clean_text, trimmed_text, excerpts, regex_data,
                           gemini_data, extracted_data, validated_data, is_duplicate>>
    /\ UNCHANGED <<inputs, outer, choices>>

(***************************************************************************)
(* Text: a tuple of lines.  The lines of the modelled messages, with what   *)
(* the patterns of text_cleaner.py say about each of them.                  *)
(***************************************************************************)
Filler    == "<12000 x>"            \* one line of 12000 characters without a keyword
FillerCut == "<prefix of 12000 x>"  \* a proper prefix of Filler
Fragment  == "<fragment>"           \* a proper prefix of any other line
StyleLine == "<style>p{margin:0}</style>"

IsBlank(l) == l = ""                                        \* not line.strip()
\* BeautifulSoup: script/style/head/meta/link elements are decomposed (text_cleaner.py:81-82)
IsNonContent(l) == l = StyleLine
\* text_cleaner.py:45-54, matched with re.match on the lower-cased stripped line
IsReplyLine(l) == l \in {"On Mon, TPO wrote:", "> quoted text"}
IsQuoted(l) == l = "> quoted text"                          \* line.strip().startswith('>')
\* text_cleaner.py:26-35
\* no line is taken for a signature
IsSignatureLineNever(l) == FALSE
IsSignatureLine(l) == l = "Thanks & Regards"
\* text_cleaner.py:37-43
IsDisclaimerLine(l) == l = "This email is confidential."
\* text_cleaner.py:56-62
IsNoiseLine(l) == l = "[image: logo]"
\* text_cleaner.py:19-23, `kw in line.lower()`
HasPreserveKeyword(l) ==
    l \in {"Role: data analyst.", "CGPA: 7.5", "Apply before 11th December 2025",
           "Drive date: 15/12/2025", "CTC: 12 LPA", "Location: Pune",
           "Register: https://forms.gle/apply", "Branches: CSE, IT"}
\* len(line)
LineLen(l) ==
    CASE l = "" -> 0
      [] l = Filler -> 12000
      [] l = FillerCut -> 11000
      [] l = "Role: data analyst." -> 19
      [] l = "CGPA: 7.5" -> 9
      [] l = "Apply before 11th December 2025" -> 31
      [] l = "Drive date: 15/12/2025" -> 22
      [] l = "CTC: 12 LPA" -> 11
      [] l = "Location: Pune" -> 14
      [] l = "Register: https://forms.gle/apply" -> 33
      [] l = "Branches: CSE, IT" -> 17
      [] l = "Internship and FTE" -> 18
      [] l = "Thanks & Regards" -> 16
      [] l = "TPO Cell" -> 8
      [] l = "Test on 15/12/25" -> 16
      [] l = "On Mon, TPO wrote:" -> 18
      [] l = "> quoted text" -> 13
      [] l = "This email is confidential." -> 27
      [] l = "[image: logo]" -> 13
      [] l = StyleLine -> 26
      [] OTHER -> 1
\* text[:n] cutting inside line l
CutLine(l) == IF l \in {Filler, FillerCut} THEN FillerCut ELSE Fragment

RECURSIVE TextLen(_)
TextLen(t) ==                                               \* len('\n'.join(t))
    IF t = <<>> THEN 0
    ELSE IF Len(t) = 1 THEN LineLen(t[1])
    ELSE LineLen(t[1]) + 1 + TextLen(Tail(t))

RECURSIVE CollapseBlank(_)
CollapseBlank(t) ==                                         \* re.sub(r'\n{3,}', '\n\n', .)
    IF Len(t) < 2 THEN t
    ELSE IF IsBlank(t[1]) /\ IsBlank(t[2]) THEN CollapseBlank(Tail(t))
    ELSE <<t[1]>> \o CollapseBlank(Tail(t))

RECURSIVE LStripBlank(_), RStripBlank(_)
LStripBlank(t) == IF t # <<>> /\ IsBlank(Head(t)) THEN LStripBlank(Tail(t)) ELSE t
RStripBlank(t) == IF t # <<>> /\ IsBlank(t[Len(t)]) THEN RStripBlank(SubSeq(t, 1, Len(t) - 1)) ELSE t
StripText(t) == RStripBlank(LStripBlank(t))                 \* text.strip()

SelectLines(t, P(_)) == SelectSeq(t, P)

html_to_text(raw_html) ==
    IF raw_html = <<>> THEN <<>>
    ELSE StripText(CollapseBlank(
             [i \in DOMAIN raw_html |-> IF IsNonContent(raw_html[i]) THEN "" ELSE raw_html[i]]))

\* the loop of remove_noise: i the line index, inq the flag in_quoted_section,
\* acc the list cleaned_lines
RECURSIVE NoiseLoop(_, _, _, _)
NoiseLoop(lines, i, inq, acc) ==
    IF i > Len(lines) THEN acc
    ELSE LET line == lines[i] IN
         IF inq /\ IsBlank(line) THEN NoiseLoop(lines, i + 1, inq, acc)
         ELSE IF IsReplyLine(line) THEN NoiseLoop(lines, i + 1, TRUE, acc)
         ELSE IF inq /\ IsQuoted(line) THEN NoiseLoop(lines, i + 1, inq, acc)
         ELSE LET inq2 == IF inq /\ LineLen(line) > 50 /\ ~IsQuoted(line) THEN FALSE ELSE inq IN
              IF IsSignatureLine(line) THEN acc
              ELSE IF IsDisclaimerLine(line) THEN NoiseLoop(lines, i + 1, inq2, acc)
              ELSE IF IsNoiseLine(line) THEN NoiseLoop(lines, i + 1, inq2, acc)
              ELSE NoiseLoop(lines, i + 1, inq2, Append(acc, line))

remove_noise(text) ==
    IF text = <<>> THEN <<>>
    ELSE StripText(CollapseBlank(NoiseLoop(text, 1, FALSE, <<>>)))

MAX_CHARS == 12000
TrimBuffer == 100

\* '\n'.join(lines)[:n], at line granularity: whole lines while they fit, then a cut line
RECURSIVE TakeChars(_, _)
TakeChars(lines, n) ==
    IF lines = <<>> \/ n <= 0 THEN <<>>
    ELSE IF LineLen(lines[1]) <= n
         THEN <<lines[1]>> \o TakeChars(Tail(lines), n - LineLen(lines[1]) - 1)
         ELSE <<CutLine(lines[1])>>

trim_to_token_limit(text, max_chars) ==
    IF TextLen(text) <= max_chars THEN text
    ELSE LET important_lines == SelectLines(text, HasPreserveKeyword)
             other_lines == SelectLines(text, LAMBDA l : ~HasPreserveKeyword(l))
             remaining_chars == max_chars - TextLen(important_lines) - TrimBuffer
         IN  IF remaining_chars > 0
             THEN StripText(important_lines \o <<"">> \o TakeChars(other_lines, remaining_chars))
             ELSE StripText(TakeChars(important_lines, max_chars))

(***************************************************************************)
(* Feature highlighter: extract_important_sections                         *)
(***************************************************************************)
\* what each pattern of extract_important_sections finds in a line
LineURLs(l) == IF l = "Register: https://forms.gle/apply" THEN <<"https://forms.gle/apply">> ELSE <<>>
LineDates(l, p) ==
    CASE l = "Drive date: 15/12/2025" /\ p = 1 -> <<"15/12/2025">>
      [] l = "Test on 15/12/25" /\ p = 1 -> <<"15/12/25">>
      [] l = "Apply before 11th December 2025" /\ p = 2 -> <<"11th December 2025">>
      [] OTHER -> <<>>
LineMoney(l, p) ==
    CASE l = "CTC: 12 LPA" /\ p = 1 -> <<"12 LPA">>
      [] l = "CTC: 12 LPA" /\ p = 3 -> <<"CTC: 12 LPA">>
      [] OTHER -> <<>>
LineCgpas(l) == IF l = "CGPA: 7.5" THEN <<"CGPA: 7.5">> ELSE <<>>

FindAll(t, F(_)) ==                                                             \* re.findall
    LET f[i \in 0..Len(t)] == IF i = 0 THEN <<>> ELSE f[i - 1] \o F(t[i]) IN f[Len(t)]
FirstN(s, n) == SubSeq(s, 1, Min(n, Len(s)))                                    \* s[:n]
Tagged(tag, s) == [i \in DOMAIN s |-> <<tag, s[i]>>]                            \* f"{tag}: {x}"
InSeq(x, s) == \E i \in DOMAIN s : s[i] = x

RECURSIVE AppendNew(_, _)
AppendNew(acc, xs) ==                          \* append each x unless already in the list
    IF xs = <<>> THEN acc
    ELSE AppendNew(IF InSeq(xs[1], acc) THEN acc ELSE Append(acc, xs[1]), Tail(xs))

extract_important_sections(text) ==
    LET e0 == Tagged("URL", FirstN(FindAll(text, LineURLs), 3))
        d1 == AppendNew(e0, Tagged("DATE", FirstN(FindAll(text, LAMBDA l : LineDates(l, 1)), 2)))
        d2 == AppendNew(d1, Tagged("DATE", FirstN(FindAll(text, LAMBDA l : LineDates(l, 2)), 2)))
        d3 == AppendNew(d2, Tagged("DATE", FirstN(FindAll(text, LAMBDA l : LineDates(l, 3)), 2)))
        m1 == AppendNew(d3, Tagged("COMPENSATION", FirstN(FindAll(text, LAMBDA l : LineMoney(l, 1)), 2)))
        m2 == AppendNew(m1, Tagged("COMPENSATION", FirstN(FindAll(text, LAMBDA l : LineMoney(l, 2)), 2)))
        m3 == AppendNew(m2, Tagged("COMPENSATION", FirstN(FindAll(text, LAMBDA l : LineMoney(l, 3)), 2)))
    IN  m3 \o Tagged("CGPA", FirstN(FindAll(text, LineCgpas), 1))

(***************************************************************************)
(* Field extraction engine: regex_extractor.py                             *)
(* For every pattern the tables give what it captures in each modelled     *)
(* line (None: no match); the search order, the conversions and the        *)
(* tie-breaks are those of the code.                                       *)
(***************************************************************************)
SubstantiveFields == {"company_name", "role", "drive_type", "batch", "drive_date",
                      "registration_deadline", "eligible_branches", "min_cgpa",
                      "ctc_or_stipend", "job_location", "registration_link"}
KeyFieldCount == 8          \* the divisor of the confidence score

\* the first line of the text in which F finds something
FirstMatch(t, F(_)) ==
    IF \E i \in DOMAIN t : F(t[i]) # None
    THEN F(t[CHOOSE i \in DOMAIN t : F(t[i]) # None /\ \A j \in 1..(i - 1) : F(t[j]) = None])
    ELSE None

\* the first pattern p of 1..n, in order, for which G(p) gives something
FirstOf(n, G(_)) ==
    IF \E p \in 1..n : G(p) # None
    THEN G(CHOOSE p \in 1..n : G(p) # None /\ \A q \in 1..(p - 1) : G(q) = None)
    ELSE None

DataAnalystLower == <<"d","a","t","a"," ","a","n","a","l","y","s","t">>

\* patterns 1..6 of extract_company_from_subject on the modelled subjects:
\* pattern 2 on "Acme Campus Drive", pattern 1 and the suffix removal on
\* "Campus Recruitment Drive || ACME Pvt Ltd"
extract_company_from_subject(subj) ==
    CASE subj = SubjAcme -> Acme
      [] subj = SubjACME -> ACME
      [] OTHER -> None

\* match.group(1).strip() of role pattern p
RoleCapture(l, p) == IF l = "Role: data analyst." /\ p = 1 THEN DataAnalystLower ELSE None
extract_role(text) ==
    LET try(p) == LET role == FirstMatch(text, LAMBDA l : RoleCapture(l, p))
                  IN  IF role # None /\ Len(role) > 3 THEN Title(role) ELSE None
    IN  FirstOf(4, try)

BatchCapture(x) ==
    IF x \in {"Apply before 11th December 2025", "Drive date: 15/12/2025"} THEN <<"2025">> ELSE None
SubjectBatch(subj) == None                 \* none of the modelled subjects names a year
extract_batch(text, subj) ==
    IF SubjectBatch(subj) # None THEN SubjectBatch(subj) ELSE FirstMatch(text, BatchCapture)

HasIntern(x) == x = "Internship and FTE"
HasFte(x) == x = "Internship and FTE"
SubjectHasIntern(subj) == FALSE            \* "Campus Drive", "Online Test": no intern token
SubjectHasFte(subj) == FALSE
extract_drive_type(text, subj) ==
    LET has_intern == SubjectHasIntern(subj) \/ \E i \in DOMAIN text : HasIntern(text[i])
        has_fte == SubjectHasFte(subj) \/ \E i \in DOMAIN text : HasFte(text[i])
    IN  IF has_intern /\ has_fte THEN <<"both">>
        ELSE IF has_intern THEN <<"internship">>
        ELSE IF has_fte THEN <<"fte">>
        ELSE None                          \* no modelled text has "b.tech ... m.tech"

\* str.zfill(2)
Zfill2(d) ==
    CASE d = "1" -> "01" [] d = "2" -> "02" [] d = "3" -> "03" [] d = "4" -> "04"
      [] d = "5" -> "05" [] d = "6" -> "06" [] d = "7" -> "07" [] d = "8" -> "08"
      [] d = "9" -> "09" [] d = "0" -> "00" [] OTHER -> d
\* months.get(month[:3].lower(), '01')
MonthNumber(m) ==
    CASE m \in {"Jan", "January"} -> "01"   [] m \in {"Feb", "February"} -> "02"
      [] m \in {"Mar", "March"} -> "03"     [] m \in {"Apr", "April"} -> "04"
      [] m = "May" -> "05"                  [] m \in {"Jun", "June"} -> "06"
      [] m \in {"Jul", "July"} -> "07"      [] m \in {"Aug", "August"} -> "08"
      [] m \in {"Sep", "September"} -> "09" [] m \in {"Oct", "October"} -> "10"
      [] m \in {"Nov", "November"} -> "11"  [] m \in {"Dec", "December"} -> "12"
      [] OTHER -> "01"
_month_to_date(day, month, year) == <<year, "-", MonthNumber(month), "-", Zfill2(day)>>

\* the groups <<day, month, year>> of date pattern p (1 numeric, 2 ordinal-day
\* Month Year, 3 Month Day Year) found in line l after the given prefix;
\* prefix "deadline1"/"deadline2": deadline_patterns, "drive": drive_patterns,
\* "": no prefix
DateCapture(l, prefix, p) ==
    CASE l = "Apply before 11th December 2025" /\ prefix \in {"deadline1", ""} /\ p = 2
            -> <<"11", "December", "2025">>
      [] l = "Drive date: 15/12/2025" /\ prefix \in {"drive", ""} /\ p = 1
            -> <<"15", "12", "2025">>
      [] l = "Drive on Dec 15, 2025" /\ prefix = "" /\ p = 3
            -> <<"15", "Dec", "2025">>
      [] l = "Drive date: Dec 15, 2025" /\ prefix \in {"drive", ""} /\ p = 3
            -> <<"15", "Dec", "2025">>
      [] l = "Interview date 3rd Jan 2026" /\ prefix \in {"drive", ""} /\ p = 2
            -> <<"3", "Jan", "2026">>
      [] l = "Last date: December 11, 2025" /\ prefix \in {"deadline1", ""} /\ p = 3
            -> <<"11", "December", "2025">>
      [] l = "Registration closes: 5-1-2026" /\ prefix \in {"deadline2", ""} /\ p = 1
            -> <<"5", "1", "2026">>
      [] l = "Deadline: 31/02/2025" /\ prefix \in {"deadline1", ""} /\ p = 1
            -> <<"31", "02", "2025">>
      [] l = "Deadline: 12/25/2025" /\ prefix \in {"deadline1", ""} /\ p = 1
            -> <<"12", "25", "2025">>
      [] l = "Deadline: 45th December 2025" /\ prefix \in {"deadline1", ""} /\ p = 2
            -> <<"45", "December", "2025">>
      [] OTHER -> None
\* the converter paired with date pattern p
DateConvert(p, g) ==
    IF p = 1 THEN <<g[3], "-", Zfill2(g[2]), "-", Zfill2(g[1])>>
    ELSE _month_to_date(g[1], g[2], g[3])
DateSearch(text, prefix) ==
    LET try(p) == LET g == FirstMatch(text, LAMBDA l : DateCapture(l, prefix, p))
                  IN  IF g = None THEN None ELSE DateConvert(p, g)
    IN  FirstOf(3, try)
extract_dates(text) ==
    LET labelled == IF DateSearch(text, "deadline1") # None
                    THEN DateSearch(text, "deadline1") ELSE DateSearch(text, "deadline2")
        deadline == IF labelled # None THEN labelled ELSE DateSearch(text, "")
    IN  [drive_date |-> DateSearch(text, "drive"), registration_deadline |-> deadline]

LineBranches(l) == IF l = "Branches: CSE, IT" THEN <<"CSE", "IT">> ELSE <<>>
HasAllBranches(l) == FALSE
RECURSIVE JoinComma(_)
JoinComma(s) == IF Len(s) <= 1 THEN s ELSE <<s[1], ", ">> \o JoinComma(Tail(s))
extract_branches(text) ==
    LET unique_branches == AppendNew(<<>>, FindAll(text, LineBranches))
    IN  IF unique_branches # <<>> THEN JoinComma(unique_branches)
        ELSE IF \E i \in DOMAIN text : HasAllBranches(text[i]) THEN <<"All Branches">>
        ELSE None

\* float(v) in tenths; -1000 stands for ValueError / TypeError
FloatTenths(v) ==
    CASE v = <<"7.5">> -> 75   [] v = <<"12.5">> -> 125  [] v = <<"0">> -> 0
      [] v = <<"-1">> -> -10   [] v = <<"10">> -> 100
      [] OTHER -> -1000
CgpaCapture(l, p) == IF l = "CGPA: 7.5" /\ p = 1 THEN <<"7.5">> ELSE None
extract_cgpa(text) ==
    LET try(p) == LET c == FirstMatch(text, LAMBDA l : CgpaCapture(l, p))
                  IN  IF c # None /\ 0 < FloatTenths(c) /\ FloatTenths(c) <= 100 THEN c ELSE None
    IN  FirstOf(3, try)

CtcCapture(l, p) == IF l = "CTC: 12 LPA" /\ p \in {1, 2} THEN <<"12 LPA">> ELSE None
IsLpa(m) == m = <<"12 LPA">>                \* 'lpa' in m.lower() or 'lakhs' in m.lower()
extract_ctc(text) ==
    LET found(p) == FirstMatch(text, LAMBDA l : CtcCapture(l, p))
        all_matches == SelectSeq([p \in 1..5 |-> found(p)], LAMBDA m : m # None)
    IN  IF \E i \in DOMAIN all_matches : IsLpa(all_matches[i])
        THEN all_matches[CHOOSE i \in DOMAIN all_matches :
                 IsLpa(all_matches[i]) /\ \A j \in 1..(i - 1) : ~IsLpa(all_matches[j])]
        ELSE IF all_matches # <<>> THEN all_matches[1] ELSE None

\* the first city of the list `cities` present in the text, else "Remote", else the label pattern
LineCity(l) == IF l = "Location: Pune" THEN <<"Pune">> ELSE None
extract_location(text) == FirstMatch(text, LineCity)

UrlExcluded(u) == FALSE                     \* no modelled URL is on a social-profile domain
UrlHasKeyword(u) == u = "https://forms.gle/apply"
extract_registration_link(text) ==
    LET urls == SelectSeq(FindAll(text, LineURLs), LAMBDA u : ~UrlExcluded(u))
        preferred == SelectSeq(urls, UrlHasKeyword)
    IN  IF preferred # <<>> THEN <<preferred[1]>>
        ELSE IF urls # <<>> THEN <<urls[1]>> ELSE None

NonNullCount(d) == Cardinality({k \in SubstantiveFields : Get(d, k) # None})
\* the field count, without the min(..., 1.0)
FieldConfidenceUncapped(cnt) == cnt
\* min(non_null / 8.0, 1.0), in eighths
FieldConfidence(cnt) == Min(cnt, KeyFieldCount)

extract_all_fields(text, subj) ==
    LET dates == extract_dates(text)
        result == [company_name          |-> extract_company_from_subject(subj),
                   role                  |-> extract_role(text),
                   drive_type            |-> extract_drive_type(text, subj),
                   batch                 |-> extract_batch(text, subj),
                   drive_date            |-> dates.drive_date,
                   registration_deadline |-> dates.registration_deadline,
                   eligible_branches     |-> extract_branches(text),
                   min_cgpa              |-> extract_cgpa(text),
                   ctc_or_stipend        |-> extract_ctc(text),
                   job_location          |-> extract_location(text),
                   registration_link     |-> extract_registration_link(text),
                   confidence_score      |-> 0,
                   extraction_method     |-> <<"regex">>]
    IN  [result EXCEPT !.confidence_score = FieldConfidence(NonNullCount(result))]

(***************************************************************************)
(* Enhancement adapter: extract_with_gemini                                *)
(***************************************************************************)
\* gemini_extractor.py:84-98
default_response ==
    [k \in SubstantiveFields \cup {"confidence_score", "extraction_error"} |->
        IF k = "confidence_score" THEN 0 ELSE None]

\* What the service answers.  kind: "unavailable" (library not installed),
\* "api_error" (the call raises), "bad_json" (json.loads raises), "json"
\* (the parsed object `extracted`, a dict)
extract_with_gemini(resp) ==
    CASE resp.kind = "unavailable" ->
            [default_response EXCEPT !.extraction_error = <<"Gemini library not installed">>]
      [] resp.kind = "api_error" ->
            [default_response EXCEPT !.extraction_error = <<"Gemini error: ">>]
      [] resp.kind = "bad_json" ->
            [default_response EXCEPT !.extraction_error = <<"JSON parse error: ">>]
      [] OTHER ->
            LET extracted == resp.json
                result == [k \in DOMAIN default_response |->
                              IF k \in DOMAIN extracted THEN extracted[k] ELSE default_response[k]]
            IN  [result EXCEPT !.confidence_score = FieldConfidence(NonNullCount(result))]

(***************************************************************************)
(* Validator: validate_extracted_data                                      *)
(***************************************************************************)
\* url.startswith(('http://', 'https://'))
HasHttpScheme(url) == url \in {<<"https://forms.gle/apply">>, <<"http://acme.example/jobs">>}
DriveTypeTokens == {<<"internship">>, <<"fte">>, <<"both">>}
\* 'intern' in dt / 'full' in dt / 'fte' in dt, dt lower-cased and stripped
DtHasIntern(dt) == \E i \in DOMAIN dt : dt[i] \in {"internship", "summer intern"}
DtHasFull(dt) == \E i \in DOMAIN dt : dt[i] \in {"full time", "full-time"}
DtHasFte(dt) == \E i \in DOMAIN dt : dt[i] \in {"fte"}
\* the three str.replace calls on the upper-cased branches
CanonBranchTok(c) ==
    CASE c = "COMPUTER SCIENCE" -> "CSE"
      [] c = "INFORMATION TECHNOLOGY" -> "IT"
      [] c = "ELECTRONICS" -> "ECE"
      [] OTHER -> c

\* result['company_name'].strip() on a value that is not a str raises AttributeError
ValidateRaises(data) == Truthy(Get(data, "company_name")) /\ ~IsStr(Get(data, "company_name"))

validate_extracted_data(data) ==
    LET company == Get(data, "company_name")
        cgpa == Get(data, "min_cgpa")
        link == Get(data, "registration_link")
        dtype == Get(data, "drive_type")
        role == Get(data, "role")
        branches == Get(data, "eligible_branches")
        e1 == IF Falsy(company) THEN <<"Missing company_name">> ELSE <<>>
        cgpaErr == cgpa # None /\ FloatTenths(cgpa) # -1000
                   /\ (FloatTenths(cgpa) < 0 \/ FloatTenths(cgpa) > 100)
        cgpaBad == cgpa # None /\ FloatTenths(cgpa) = -1000
        e2 == IF cgpaErr THEN Append(e1, "Invalid CGPA range") ELSE e1
        linkErr == Truthy(link) /\ ~HasHttpScheme(link)
        e3 == IF linkErr THEN Append(e2, "Invalid registration link") ELSE e2
        dt == Strip(Lower(dtype))
    IN  Update(data,
          [needs_review |-> Falsy(company),
           company_name |-> IF Truthy(company) THEN Title(Strip(company)) ELSE company,
           min_cgpa |-> IF cgpaErr \/ cgpaBad THEN None ELSE cgpa,
           registration_link |-> IF linkErr THEN None ELSE link,
           drive_type |-> IF Falsy(dtype) \/ dt \in DriveTypeTokens THEN dtype
                           ELSE IF DtHasIntern(dt) THEN <<"internship">>
                           ELSE IF DtHasFull(dt) \/ DtHasFte(dt) THEN <<"fte">>
                           ELSE None,
           role |-> IF Truthy(role) THEN Strip(role) ELSE role,
           eligible_branches |-> IF Truthy(branches)
                                  THEN [i \in DOMAIN branches |-> CanonBranchTok(ToUpper(branches[i]))]
                                  ELSE branches,
           validation_errors |-> e3])

(***************************************************************************)
(* Duplicate detector: check_duplicate                                     *)
(***************************************************************************)
OrEmpty(v) == IF Falsy(v) THEN EmptyStr ELSE v              \* (v or '')

\* the match without the wildcard of an unset existing role
DriveMatchesKnownRole(extracted, drive) ==
    LET new_company == Strip(Lower(extracted.company_name))
        new_role == Strip(Lower(OrEmpty(Get(extracted, "role"))))
        new_deadline == Get(extracted, "registration_deadline")
        existing_company == Strip(Lower(OrEmpty(Get(drive, "company_name"))))
        existing_role == Strip(Lower(OrEmpty(Get(drive, "role"))))
        existing_deadline == Get(drive, "registration_deadline")
    IN  /\ existing_company = new_company
        /\ (existing_role = new_role \/ Falsy(new_role))
        /\ (existing_deadline = new_deadline \/ Falsy(new_deadline))

DriveMatches(extracted, drive) ==
    LET new_company == Strip(Lower(extracted.company_name))
        new_role == Strip(Lower(OrEmpty(Get(extracted, "role"))))
        new_deadline == Get(extracted, "registration_deadline")
        existing_company == Strip(Lower(OrEmpty(Get(drive, "company_name"))))
        existing_role == Strip(Lower(OrEmpty(Get(drive, "role"))))
        existing_deadline == Get(drive, "registration_deadline")
    IN  /\ existing_company = new_company
        /\ (existing_role = new_role \/ Falsy(new_role) \/ Falsy(existing_role))
        /\ (existing_deadline = new_deadline \/ Falsy(new_deadline))

\* a detector with memory: it reports a duplicate only the first time it is asked
check_duplicate_first_run(extracted, drives) ==
    IF Falsy(Get(extracted, "company_name")) \/ run # 1 THEN FALSE
    ELSE \E i \in DOMAIN drives : DriveMatches(extracted, drives[i])
check_duplicate(extracted, drives) ==
    IF Falsy(Get(extracted, "company_name")) THEN FALSE
    ELSE \E i \in DOMAIN drives : DriveMatches(extracted, drives[i])

(***************************************************************************)
(* Nodes 2..10.  A helper called inside try may raise (exc); the except     *)
(* branch of the node is what then happens.                                 *)
(***************************************************************************)
\* the guard without "failed"
SkippedFilteredOnly == status = "filtered"
\* langgraph_pipeline.py:125, 140, 158, 170, 192, 240, 260
Skipped == status \in {"filtered", "failed"}

html_to_text_step(exc) ==
    /\ pc = "html_to_text"
    /\ pc' = "remove_noise"
    /\ IF status = "filtered"
       THEN UNCHANGED record
       ELSE IF exc
            THEN /\ status' = "failed"
                 /\ error_message' = <<"HTML conversion failed: ">>
                 /\ UNCHANGED <<is_allowed_sender, plain_text, clean_text, trimmed_text, excerpts,
                                regex_data, gemini_data, extracted_data, validated_data, is_duplicate>>
            ELSE /\ plain_text' = html_to_text(raw_body)
                 /\ UNCHANGED <<is_allowed_sender, clean_text, trimmed_text, excerpts, regex_data,
                                gemini_data, extracted_data, validated_data, status, is_duplicate,
                                error_message>>
    /\ UNCHANGED <<inputs, outer>>
html_to_text_node == \E exc \in BOOLEAN : html_to_text_step(exc) /\ UNCHANGED choices

remove_noise_step(exc) ==
    /\ pc = "remove_noise"
    /\ pc' = "token_safety"
    /\ IF Skipped
       THEN UNCHANGED record
       ELSE IF exc
            THEN /\ status' = "failed"
                 /\ error_message' = <<"Noise removal failed: ">>
                 /\ UNCHANGED <<is_allowed_sender, plain_text, clean_text, trimmed_text, excerpts,
                                regex_data, gemini_data, extracted_data, validated_data, is_duplicate>>
            ELSE /\ clean_text' = remove_noise(plain_text)
                 /\ UNCHANGED <<is_allowed_sender, plain_text, trimmed_text, excerpts, regex_data,
                                gemini_data, extracted_data, validated_data, status, is_duplicate,
                                error_message>>
    /\ UNCHANGED <<inputs, outer>>
remove_noise_node == \E exc \in BOOLEAN : remove_noise_step(exc) /\ UNCHANGED choices

token_safety_step(exc) ==
    /\ pc = "token_safety"
    /\ pc' = "extract_sections"
    /\ IF Skipped
       THEN UNCHANGED record
       ELSE IF exc
            THEN /\ status' = "failed"
                 /\ error_message' = <<"Token trimming failed: ">>
                 /\ UNCHANGED <<is_allowed_sender, plain_text, clean_text, trimmed_text, excerpts,
                                regex_data, gemini_data, extracted_data, validated_data, is_duplicate>>
            ELSE /\ trimmed_text' = trim_to_token_limit(clean_text, MAX_CHARS)
                 /\ status' = "cleaned"
                 /\ UNCHANGED <<is_allowed_sender, plain_text, clean_text, excerpts, regex_data,
                                gemini_data, extracted_data, validated_data, is_duplicate,
                                error_message>>
    /\ UNCHANGED <<inputs, outer>>
token_safety_node == \E exc \in BOOLEAN : token_safety_step(exc) /\ UNCHANGED choices

extract_sections_step(exc) ==
    /\ pc = "extract_sections"
    /\ pc' = "regex_extract"
    /\ IF Skipped
       THEN UNCHANGED record
       ELSE /\ excerpts' = IF exc THEN <<>> ELSE extract_important_sections(clean_text)
            /\ UNCHANGED <<is_allowed_sender, plain_text, clean_text, trimmed_text, regex_data,
                           gemini_data, extracted_data, validated_data, status, is_duplicate,
                           error_message>>
    /\ UNCHANGED <<inputs, outer>>
extract_sections_node == \E exc \in BOOLEAN : extract_sections_step(exc) /\ UNCHANGED choices

regex_extract_step(exc) ==
    /\ pc = "regex_extract"
    /\ pc' = "gemini_enhance"
    /\ IF Skipped
       THEN UNCHANGED record
       ELSE IF exc
            THEN /\ status' = "failed"
                 /\ error_message' = <<"Regex extraction failed: ">>
                 /\ UNCHANGED <<is_allowed_sender, plain_text, clean_text, trimmed_text, excerpts,
                                regex_data, gemini_data, extracted_data, validated_data, is_duplicate>>
            ELSE /\ regex_data' = extract_all_fields(trimmed_text, subject)
                 /\ extracted_data' = extract_all_fields(trimmed_text, subject)
                 /\ status' = "extracted"
                 /\ UNCHANGED <<is_allowed_sender, plain_text, clean_text, trimmed_text, excerpts,
                                gemini_data, validated_data, is_duplicate, error_message>>
    /\ UNCHANGED <<inputs, outer>>
regex_extract_node == \E exc \in BOOLEAN : regex_extract_step(exc) /\ UNCHANGED choices

\* langgraph_pipeline.py:215-219: one field of the merge, rule the rule-based
\* value and adapter the adapter's
MergeValueAlways(rule, adapter) == adapter      \* the merge without `value is not None`
MergeValue(rule, adapter) == IF adapter # None THEN adapter ELSE rule
NotMerged == {"extraction_error", "confidence_score"}
\* langgraph_pipeline.py:221-227
AdapterSucceeded(g) == Falsy(Get(g, "extraction_error"))
MergedConfidenceAdapter(rule, adapter) == adapter       \* the adapter's score, without max
MergedConfidence(rule, adapter) == Max(rule, adapter)

MergeGemini(base, g) ==
    LET keys == DOMAIN base \cup {k \in DOMAIN g \ NotMerged : g[k] # None}
        merged == [k \in keys |->
                     IF k \in DOMAIN g \ NotMerged
                     THEN MergeValue(Get(base, k), g[k]) ELSE base[k]]
    IN  IF AdapterSucceeded(g)
        THEN Update(merged,
                    [confidence_score |-> MergedConfidence(merged.confidence_score, g.confidence_score),
                     extraction_method |-> <<"regex+gemini">>])
        ELSE merged

\* answers of the enhancement service
JsonFull ==
    [company_name |-> Beta, role |-> <<"S","D","E">>, drive_type |-> <<"FTE">>,
     batch |-> <<"2026">>, drive_date |-> <<"2026", "-", "01", "-", "20">>,
     registration_deadline |-> <<"2026", "-", "01", "-", "10">>,
     eligible_branches |-> <<"Computer Science">>, min_cgpa |-> <<"12.5">>,
     ctc_or_stipend |-> <<"12 LPA">>, job_location |-> <<"Remote">>,
     registration_link |-> <<"www.acme.example/apply">>]
AdapterJson ==
    { EmptyDict,
      [company_name |-> Beta],
      [company_name |-> <<" ", "a", "c", "m", "e", " ">>, role |-> None],
      [role |-> EmptyStr],
      [company_name |-> NonStr],
      [company_name |-> Beta, extraction_error |-> <<"partial">>],
      [role |-> <<"S","D","E">>, confidence_score |-> 40],
      [company_name |-> Beta, min_cgpa |-> Zero],
      [min_cgpa |-> <<"-1">>],
      JsonFull }
AdapterResponses ==
    { [kind |-> k, json |-> EmptyDict] : k \in {"unavailable", "api_error", "bad_json"} }
    \cup { [kind |-> "json", json |-> j] : j \in AdapterJson }

gemini_enhance_step(exc, resp) ==
    /\ pc = "gemini_enhance"
    /\ pc' = "validation"
    /\ IF Skipped \/ ~use_gemini \/ Falsy(api_key)
       THEN UNCHANGED record
       ELSE IF exc
            THEN UNCHANGED record                   \* except Exception: return {}
            ELSE /\ gemini_data' = extract_with_gemini(resp)
                 /\ extracted_data' = MergeGemini(extracted_data, extract_with_gemini(resp))
                 /\ UNCHANGED <<is_allowed_sender, plain_text, clean_text, trimmed_text, excerpts,
                                regex_data, validated_data, status, is_duplicate, error_message>>
    /\ UNCHANGED <<inputs, outer>>
gemini_enhance_node ==
    \E exc \in BOOLEAN, resp \in AdapterResponses :
        gemini_enhance_step(exc, resp) /\ UNCHANGED choices

\* a record that needs review is aborted
ValidationStatusAborting(validated) == IF validated.needs_review THEN "failed" ELSE "validated"
\* langgraph_pipeline.py:245
ValidationStatus(validated) == IF validated.needs_review THEN "needs_review" ELSE "validated"

validation_step(exc) ==
    /\ pc = "validation"
    /\ pc' = "deduplication"
    /\ IF Skipped
       THEN UNCHANGED record
       ELSE IF exc \/ ValidateRaises(extracted_data)
            THEN /\ status' = "failed"
                 /\ error_message' = <<"Validation failed: ">>
                 /\ UNCHANGED <<is_allowed_sender, plain_text, clean_text, trimmed_text, excerpts,
                                regex_data, gemini_data, extracted_data, validated_data, is_duplicate>>
            ELSE /\ validated_data' = validate_extracted_data(extracted_data)
                 /\ status' = ValidationStatus(validate_extracted_data(extracted_data))
                 /\ UNCHANGED <<is_allowed_sender, plain_text, clean_text, trimmed_text, excerpts,
                                regex_data, gemini_data, extracted_data, is_duplicate, error_message>>
    /\ UNCHANGED <<inputs, outer>>
validation_node == \E exc \in BOOLEAN : validation_step(exc) /\ UNCHANGED choices

deduplication_step(exc) ==
    /\ pc = "deduplication"
    /\ pc' = "map_to_model"
    /\ IF Skipped
       THEN UNCHANGED record
       ELSE /\ IF ~exc /\ check_duplicate(validated_data, existing_drives)
               THEN /\ is_duplicate' = TRUE
                    /\ status' = "duplicate"
               ELSE /\ is_duplicate' = FALSE
                    /\ UNCHANGED status
            /\ UNCHANGED <<is_allowed_sender, plain_text, clean_text, trimmed_text, excerpts,
                           regex_data, gemini_data, extracted_data, validated_data, error_message>>
    /\ UNCHANGED <<inputs, outer>>
deduplication_node == \E exc \in BOOLEAN : deduplication_step(exc) /\ UNCHANGED choices

\* langgraph_pipeline.py:284-289
model_fields == {"company_name", "company_logo", "role", "drive_type", "batch",
                 "drive_date", "registration_deadline", "eligible_branches",
                 "min_cgpa", "eligibility_text", "ctc_or_stipend", "job_location",
                 "registration_link", "status", "confidence_score", "official_source"}
\* the guard without "failed"
MapSkippedNoFailed == status \in {"filtered", "duplicate"}
\* langgraph_pipeline.py:281
MapSkipped == status \in {"filtered", "failed", "duplicate"}

\* the node without its "status" entry
MappedStatusKept == status
\* langgraph_pipeline.py:305
MappedStatus == "ready"

placement_dict(validated) ==
    [field \in model_fields |->
        CASE field = "status" /\ Falsy(Get(validated, field)) -> <<"upcoming">>
          [] field = "official_source" /\ Falsy(Get(validated, field)) -> <<"TPO Email">>
          [] OTHER -> Get(validated, field)]

map_to_model_node ==
    /\ pc = "map_to_model"
    /\ pc' = "done"
    /\ IF MapSkipped
       THEN UNCHANGED record
       ELSE /\ validated_data' = placement_dict(validated_data)
            /\ status' = MappedStatus
            /\ UNCHANGED <<is_allowed_sender, plain_text, clean_text, trimmed_text, excerpts,
                           regex_data, gemini_data, extracted_data, is_duplicate, error_message>>
    /\ UNCHANGED <<inputs, outer, choices>>

(***************************************************************************)
(* run_langgraph_pipeline: the inputs of a run and its initial state        *)
(***************************************************************************)
MaxDrives == 2              \* longest existing-drive snapshot

BodyRole == <<StyleLine, "Role: data analyst.">>
BodyFull == <<"Role: data analyst.", "Internship and FTE", "Drive date: 15/12/2025",
              "Apply before 11th December 2025", "Branches: CSE, IT", "CGPA: 7.5",
              "CTC: 12 LPA", "Location: Pune", "Register: https://forms.gle/apply">>
BodySigned == <<"Role: data analyst.", "Thanks & Regards", "Apply before 11th December 2025">>
BodyLong == <<"CGPA: 7.5", Filler, "Location: Pune">>
BodyReply == <<"CTC: 12 LPA", "[image: logo]", "This email is confidential.",
               "On Mon, TPO wrote:", "> quoted text", "", "TPO Cell">>
\* the cap cuts the long line and drops the dated line after it
BodyCapped == <<"Role: data analyst.", Filler, "Test on 15/12/25">>
Bodies == {<<>>, BodyRole, BodyFull, BodySigned, BodyLong, BodyReply, BodyCapped}

\* ExistingDriveSummary records as the callers build them from stored drives
\* (gmail_events.py:86-94): the deadline is a DateTime column's isoformat()
ExistingRecords ==
    { [company_name |-> Acme, role |-> None, batch |-> <<"2026">>,
       registration_deadline |-> <<"2025", "-", "12", "-", "11", "T00:00:00">>],
      [company_name |-> Acme, role |-> <<"D","a","t","a"," ","A","n","a","l","y","s","t">>,
       batch |-> None, registration_deadline |-> None],
      [company_name |-> Beta, role |-> None, batch |-> None, registration_deadline |-> None] }
SeqsUpTo(S, n) == UNION { [1..k -> S] : k \in 0..n }
Snapshots == SeqsUpTo(ExistingRecords, MaxDrives)

Init ==
    /\ sender \in Senders
    /\ subject \in Subjects
    /\ raw_body \in Bodies
    /\ api_key \in {None, <<"key">>}
    /\ use_gemini \in BOOLEAN
    /\ existing_drives \in Snapshots
    /\ is_allowed_sender = FALSE
    /\ plain_text = <<>>
    /\ clean_text = <<>>
    /\ trimmed_text = <<>>
    /\ excerpts = <<>>
    /\ regex_data = EmptyDict
    /\ gemini_data = EmptyDict
    /\ extracted_data = EmptyDict
    /\ validated_data = EmptyDict
    /\ status = "pending"
    /\ is_duplicate = FALSE
    /\ error_message = None
    /\ pc = "filter_sender"
    /\ processed_results = <<>>
    /\ merged_results = <<>>
    /\ results_in = <<>>
    /\ run = 1
    /\ first_run = <<>>
    /\ choices = <<>>
    /\ NoRows

Next ==
    \/ filter_sender_node
    \/ html_to_text_node
    \/ remove_noise_node
    \/ token_safety_node
    \/ extract_sections_node
    \/ regex_extract_node
    \/ gemini_enhance_node
    \/ validation_node
    \/ deduplication_node
    \/ map_to_model_node

Spec == Init /\ [][Next]_vars

\* build_pipeline: the ten nodes, chained by edges from the entry point to END
Nodes == {"filter_sender", "html_to_text", "remove_noise", "token_safety", "extract_sections",
          "regex_extract", "gemini_enhance", "validation", "deduplication", "map_to_model"}
\* a step along an edge of the graph (or out of it, by an exception)
NodeStep == pc \in Nodes /\ pc' \in (Nodes \cup {"done", "raised"}) \ {pc}
\* pipeline.invoke runs node after node until END: a run does not stop while
\* a node is still to be run
FairSpec == Spec /\ WF_pc(NodeStep)

(***************************************************************************)
(* The same message run twice: run_langgraph_pipeline is called again with *)
(* the arguments of the first call once the first call has ended.          *)
(***************************************************************************)
\* initial_state of run_langgraph_pipeline (langgraph_pipeline.py:365-386)
run_again ==
    /\ run = 1
    /\ pc \in {"done", "raised"}
    /\ run' = 2
    /\ first_run' = [record |-> record, pc |-> pc]
    /\ pc' = "filter_sender"
    /\ is_allowed_sender' = FALSE
    /\ plain_text' = <<>>
    /\ clean_text' = <<>>
    /\ trimmed_text' = <<>>
    /\ excerpts' = <<>>
    /\ regex_data' = EmptyDict
    /\ gemini_data' = EmptyDict
    /\ extracted_data' = EmptyDict
    /\ validated_data' = EmptyDict
    /\ status' = "pending"
    /\ is_duplicate' = FALSE
    /\ error_message' = None
    /\ UNCHANGED <<inputs, batch, store, hook, calls, choices>>

\* Whether a helper raises on its argument, and what the enhancement service
\* answers, belong to the message and its surroundings: the first run notes
\* them, the second run meets the same.
Faults == IF Skipped THEN {FALSE} ELSE BOOLEAN
Answers(exc) ==
    IF exc \/ Skipped \/ ~use_gemini \/ Falsy(api_key)
    THEN {[kind |-> "unavailable", json |-> EmptyDict]} ELSE AdapterResponses
Replay(stage, choice) ==
    IF run = 1
    THEN choices' = Put(choices, stage, choice)
    ELSE stage \in DOMAIN choices /\ choices[stage] = choice /\ UNCHANGED choices

RerunNext ==
    \/ filter_sender_node
    \/ \E exc \in Faults : html_to_text_step(exc) /\ Replay("html_to_text", <<exc>>)
    \/ \E exc \in Faults : remove_noise_step(exc) /\ Replay("remove_noise", <<exc>>)
    \/ \E exc \in Faults : token_safety_step(exc) /\ Replay("token_safety", <<exc>>)
    \/ \E exc \in Faults : extract_sections_step(exc) /\ Replay("extract_sections", <<exc>>)
    \/ \E exc \in Faults : regex_extract_step(exc) /\ Replay("regex_extract", <<exc>>)
    \/ \E exc \in Faults : \E resp \in Answers(exc) :
          gemini_enhance_step(exc, resp) /\ Replay("gemini_enhance", <<exc, resp>>)
    \/ \E exc \in Faults : validation_step(exc) /\ Replay("validation", <<exc>>)
    \/ \E exc \in Faults : deduplication_step(exc) /\ Replay("deduplication", <<exc>>)
    \/ map_to_model_node
    \/ run_again
RerunSpec == Init /\ [][RerunNext]_vars

(***************************************************************************)
(* check_duplicate on its own: a candidate and a snapshot, then the call    *)
(***************************************************************************)
DataAnalyst == <<"D","a","t","a"," ","A","n","a","l","y","s","t">>
SDE == <<"S","D","E">>
Deadline1 == <<"2025", "-", "12", "-", "11">>
Deadline2 == <<"2026", "-", "01", "-", "10">>

DupCandidates ==
    { [company_name |-> c, role |-> r, registration_deadline |-> d] :
        c \in {None, EmptyStr, Acme, Lower(Acme), <<" ">> \o ACME \o <<" ">>, Beta},
        r \in {None, EmptyStr, DataAnalyst, Lower(DataAnalyst), SDE},
        d \in {None, EmptyStr, Deadline1, Deadline2} }

DupRecords ==
    { [company_name |-> Acme, role |-> None, registration_deadline |-> Deadline1],
      [company_name |-> <<" ">> \o Lower(Acme) \o <<" ">>, role |-> DataAnalyst,
       registration_deadline |-> None],
      [company_name |-> ACME, role |-> EmptyStr, registration_deadline |-> Deadline2],
      [company_name |-> Beta, role |-> SDE, registration_deadline |-> Deadline1],
      [company_name |-> Acme, role |-> Lower(SDE), registration_deadline |-> Deadline2],
      [company_name |-> Acme, role |-> DataAnalyst,
       registration_deadline |-> Deadline1 \o <<"T00:00:00">>] }

DupInit ==
    /\ sender = SenderTPO
    /\ subject = SubjAcme
    /\ raw_body = <<>>
    /\ api_key = None
    /\ use_gemini = FALSE
    /\ existing_drives \in SeqsUpTo(DupRecords, MaxDrives)
    /\ is_allowed_sender = TRUE
    /\ plain_text = <<>>
    /\ clean_text = <<>>
    /\ trimmed_text = <<>>
    /\ excerpts = <<>>
    /\ regex_data = EmptyDict
    /\ gemini_data = EmptyDict
    /\ extracted_data = EmptyDict
    /\ validated_data \in DupCandidates
    /\ status = "validated"
    /\ is_duplicate = FALSE
    /\ error_message = None
    /\ pc = "check_duplicate"
    /\ processed_results = <<>>
    /\ merged_results = <<>>
    /\ results_in = <<>>
    /\ run = 1
    /\ first_run = <<>>
    /\ choices = <<>>
    /\ NoRows

\* is_dup = check_duplicate(validated_data, existing_drives)
check_duplicate_call ==
    /\ pc = "check_duplicate"
    /\ pc' = "returned"
    /\ is_duplicate' = check_duplicate(validated_data, existing_drives)
    /\ UNCHANGED <<is_allowed_sender, plain_text, clean_text, trimmed_text, excerpts,
                   regex_data, gemini_data, extracted_data, validated_data, status,
                   error_message>>
    /\ UNCHANGED <<inputs, outer, choices>>

DupNext == check_duplicate_call
DupSpec == DupInit /\ [][DupNext]_vars

(***************************************************************************)
(* Cross-message merge (debug.py merge_company_results): the confidence of *)
(* a merged record after one more candidate of its company                 *)
(***************************************************************************)
\* the later candidate's score replaces the merged one
merge_confidence_last(existing_conf, new_conf) == new_conf
merge_confidence(existing_conf, new_conf) ==
    IF new_conf > existing_conf THEN new_conf ELSE existing_conf

(***************************************************************************)
(* Cross-message merge: merge_company_results (debug.py:367-399)           *)
(* A result is pipeline_result_to_json(final_state), reduced to the keys   *)
(* the merge reads or writes: status, extracted_data, validated_data.      *)
(***************************************************************************)
MergeFields ==
    {"role", "drive_type", "batch", "drive_date", "registration_deadline",
     "eligible_branches", "min_cgpa", "eligibility_text", "ctc_or_stipend",
     "job_location", "registration_link"}

\* company = result.get("validated_data", {}).get("company_name")
CompanyOf(result) == Get(result.validated_data, "company_name")
\* company_key = company.lower().strip()
CompanyKey(result) == Strip(Lower(CompanyOf(result)))
\* result.get("validated_data", {}).get("confidence_score", 0)
ConfOf(result) ==
    IF "confidence_score" \in DOMAIN result.validated_data
    THEN result.validated_data.confidence_score ELSE 0

\* a later value replaces the merged one whenever the later one is set
FillsAlways(existing_val, new_val) == Truthy(new_val)
\* if not existing_val and new_val:
Fills(existing_val, new_val) == Falsy(existing_val) /\ Truthy(new_val)

\* the else branch of the loop body: fold `result` into `existing`
MergeInto(existing, result) ==
    LET vd == existing.validated_data
        nv == result.validated_data
        filled == {f \in MergeFields : Fills(Get(vd, f), Get(nv, f))}
        vd1 == [k \in DOMAIN vd \cup filled |-> IF k \in filled THEN nv[k] ELSE vd[k]]
        ed == existing.extracted_data
        ed1 == [k \in DOMAIN ed \cup filled |-> IF k \in filled THEN nv[k] ELSE ed[k]]
        existing_conf == ConfOf(existing)
        new_conf == ConfOf(result)
        conf == merge_confidence(existing_conf, new_conf)
        vd2 == IF conf # existing_conf THEN Put(vd1, "confidence_score", conf) ELSE vd1
    IN  [existing EXCEPT !.validated_data = vd2, !.extracted_data = ed1]

\* company_map after the loop has handled results[i..]; an entry keeps its key,
\* the index of the result that seeded it and the merged record (dicts keep
\* insertion order, so the entries are a sequence)
RECURSIVE MergeLoop(_, _, _)
MergeLoop(results, i, company_map) ==
    IF i > Len(results) THEN company_map
    ELSE LET result == results[i]
         IN  IF Falsy(CompanyOf(result))
             THEN MergeLoop(results, i + 1, company_map)            \* continue
             ELSE LET at == {j \in DOMAIN company_map : company_map[j].key = CompanyKey(result)}
                  IN  IF at = {}
                      THEN MergeLoop(results, i + 1,
                               Append(company_map,
                                      [key |-> CompanyKey(result), seed |-> i, value |-> result]))
                      ELSE LET j == CHOOSE j \in at : TRUE
                           IN  MergeLoop(results, i + 1,
                                   [company_map EXCEPT ![j].value = MergeInto(@, result)])

\* return list(company_map.values())
merge_company_results(results) ==
    LET company_map == MergeLoop(results, 1, <<>>)
    IN  [j \in DOMAIN company_map |-> company_map[j].value]

\* result.copy() is shallow: the seed's validated_data and extracted_data are the
\* very dicts the merged record holds, so the caller's list sees the fills too
ResultsAfterMerge(results) ==
    LET company_map == MergeLoop(results, 1, <<>>)
    IN  [i \in DOMAIN results |->
            IF \E j \in DOMAIN company_map : company_map[j].seed = i
            THEN company_map[CHOOSE j \in DOMAIN company_map : company_map[j].seed = i].value
            ELSE results[i]]

MaxResults == 3

\* validated_data of a run that ended ready (placement_dict of map_to_model_node)
ReadyData(company, role, cgpa, ctc, conf) ==
    [f \in model_fields |->
        CASE f = "company_name" -> company
          [] f = "role" -> role
          [] f = "min_cgpa" -> cgpa
          [] f = "ctc_or_stipend" -> ctc
          [] f = "confidence_score" -> conf
          [] f = "status" -> <<"upcoming">>
          [] f = "official_source" -> <<"TPO Email">>
          [] OTHER -> None]
ReadyResult(company, role, cgpa, ctc, conf) ==
    [status |-> "ready",
     extracted_data |-> [f \in MergeFields \cup {"company_name", "confidence_score"} |->
                            ReadyData(company, role, cgpa, ctc, conf)[f]],
     validated_data |-> ReadyData(company, role, cgpa, ctc, conf)]
\* a run that failed before validation: validated_data is still {}
FailedResult == [status |-> "failed", extracted_data |-> EmptyDict, validated_data |-> EmptyDict]

MergeCandidates ==
    { ReadyResult(c, r, g[1], g[2], g[3]) :
        c \in {Acme, Beta},
        r \in {None, EmptyStr, SDE, DataAnalyst},
        g \in { <<None, <<"12 LPA">>, 3>>, <<<<"7.5">>, None, 6>> } }
    \cup { ReadyResult(Acme, None, Zero, None, 5),
           ReadyResult(None, DataAnalyst, <<"7.5">>, None, 2),
           FailedResult }

MergeInit ==
    /\ sender = SenderTPO
    /\ subject = SubjAcme
    /\ raw_body = <<>>
    /\ api_key = None
    /\ use_gemini = FALSE
    /\ existing_drives = <<>>
    /\ is_allowed_sender = FALSE
    /\ plain_text = <<>>
    /\ clean_text = <<>>
    /\ trimmed_text = <<>>
    /\ excerpts = <<>>
    /\ regex_data = EmptyDict
    /\ gemini_data = EmptyDict
    /\ extracted_data = EmptyDict
    /\ validated_data = EmptyDict
    /\ status = "pending"
    /\ is_duplicate = FALSE
    /\ error_message = None
    /\ pc = "merge_company_results"
    /\ processed_results \in SeqsUpTo(MergeCandidates, MaxResults)
    /\ merged_results = <<>>
    /\ results_in = processed_results
    /\ run = 1
    /\ first_run = <<>>
    /\ choices = <<>>
    /\ NoRows

\* merged_results = merge_company_results(processed_results)   (debug.py:401)
merge_call ==
    /\ pc = "merge_company_results"
    /\ pc' = "merged"
    /\ merged_results' = merge_company_results(processed_results)
    /\ processed_results' = ResultsAfterMerge(processed_results)
    /\ UNCHANGED <<inputs, record, results_in, rerun, store, hook, calls, choices>>

MergeNext == merge_call
MergeSpec == MergeInit /\ [][MergeNext]_vars

(***************************************************************************)
(* extract_dates on its own: a text of date lines, then the call           *)
(***************************************************************************)
MaxDateLines == 2

DateLines ==
    {"Apply before 11th December 2025", "Last date: December 11, 2025",
     "Registration closes: 5-1-2026", "Drive date: 15/12/2025",
     "Drive date: Dec 15, 2025", "Interview date 3rd Jan 2026",
     "Drive on Dec 15, 2025", "Deadline: 31/02/2025", "Deadline: 12/25/2025",
     "Deadline: 45th December 2025"}

DateInit ==
    /\ sender = SenderTPO
    /\ subject = SubjAcme
    /\ raw_body = <<>>
    /\ api_key = None
    /\ use_gemini = FALSE
    /\ existing_drives = <<>>
    /\ is_allowed_sender = TRUE
    /\ plain_text = <<>>
    /\ clean_text = <<>>
    /\ trimmed_text \in SeqsUpTo(DateLines, MaxDateLines)
    /\ excerpts = <<>>
    /\ regex_data = EmptyDict
    /\ gemini_data = EmptyDict
    /\ extracted_data = EmptyDict
    /\ validated_data = EmptyDict
    /\ status = "cleaned"
    /\ is_duplicate = FALSE
    /\ error_message = None
    /\ pc = "extract_dates"
    /\ processed_results = <<>>
    /\ merged_results = <<>>
    /\ results_in = <<>>
    /\ run = 1
    /\ first_run = <<>>
    /\ choices = <<>>
    /\ NoRows

\* dates = extract_dates(text)   (regex_extractor.py:347)
extract_dates_call ==
    /\ pc = "extract_dates"
    /\ pc' = "extracted"
    /\ regex_data' = extract_dates(trimmed_text)
    /\ UNCHANGED <<is_allowed_sender, plain_text, clean_text, trimmed_text, excerpts,
                   gemini_data, extracted_data, validated_data, status, is_duplicate,
                   error_message>>
    /\ UNCHANGED <<inputs, outer, choices>>

DateNext == extract_dates_call
DateSpec == DateInit /\ [][DateNext]_vars

(***************************************************************************)
(* Gmail push webhook (gmail_events.py gmail_events): the messages of a    *)
(* notification go through the pipeline and into tables emails and         *)
(* placement_drives                                                        *)
(***************************************************************************)
MaxFetched == 2             \* most message ids one notification lists

TwoDigits == <<"01", "02", "03", "04", "05", "06", "07", "08", "09", "10",
               "11", "12", "13", "14", "15", "16", "17", "18", "19", "20",
               "21", "22", "23", "24", "25", "26", "27", "28", "29", "30", "31">>
DaysIn(month, year) ==
    IF month = 2 THEN (IF year \in {"2024", "2028"} THEN 29 ELSE 28)
    ELSE IF month \in {4, 6, 9, 11} THEN 30 ELSE 31
\* v is YYYY-MM-DD with a month in 1..12 and a day of that month
ValidDate(v) ==
    /\ Len(v) = 5
    /\ \E m \in 1..12 :
          /\ v[3] = TwoDigits[m]
          /\ \E d \in 1..DaysIn(m, v[1]) : v[5] = TwoDigits[d]

\* python `a or b`
Or(a, b) == IF Truthy(a) THEN a ELSE b

\* gmail_events.py:220-226: a string becomes a date, None when it does not parse
\* (a Date value is written as its isoformat)
to_drive_date(v) == IF v = None THEN None ELSE IF ValidDate(v) THEN v ELSE None
\* gmail_events.py:228-232: a string becomes a datetime at midnight, None when it
\* does not parse (a DateTime value is written as its isoformat)
to_registration_deadline(v) ==
    IF v = None THEN None ELSE IF ValidDate(v) THEN v \o <<"T00:00:00">> ELSE None

\* db.query(Email).filter(Email.gmail_message_id == msg_id).first()
EmailRows(rows, msg_id) == {i \in DOMAIN rows : rows[i].gmail_message_id = msg_id}
\* the webhook never recognises a stored message
existing_email_never(rows, msg_id) == FALSE
\* gmail_events.py:122-126
existing_email(rows, msg_id) == EmailRows(rows, msg_id) # {}

\* db_service.py:23-76: the table after the call (the row of msg_id is what it returns)
save_email(rows, msg_id) ==
    IF EmailRows(rows, msg_id) # {} THEN rows
    ELSE Append(rows, [id |-> Len(rows) + 1, gmail_message_id |-> msg_id])
EmailId(rows, msg_id) == CHOOSE n \in 1..Len(rows) : rows[n].gmail_message_id = msg_id

\* the comparison of SQL, where an unset batch or role equals nothing
DriveRowsNullUnequal(rows, company, batch_, role) ==
    {i \in DOMAIN rows : /\ Lower(rows[i].company_name) = Lower(company)
                         /\ rows[i].batch = batch_ /\ batch_ # None
                         /\ rows[i].role = role /\ role # None}
\* db_service.py:114-118
DriveRows(rows, company, batch_, role) ==
    {i \in DOMAIN rows : /\ Lower(rows[i].company_name) = Lower(company)
                         /\ rows[i].batch = batch_
                         /\ rows[i].role = role}

\* db_service.py:120-136: the attributes of the row found, as the call sets them
UpdatedDrive(existing, a) ==
    [existing EXCEPT
        !.source_email_id = IF a.source_email_id # 0 THEN a.source_email_id
                            ELSE existing.source_email_id,
        !.company_logo = Or(a.company_logo, existing.company_logo),
        !.drive_type = Or(a.drive_type, existing.drive_type),
        !.drive_date = Or(a.drive_date, existing.drive_date),
        !.registration_deadline = Or(a.registration_deadline,
                                     existing.registration_deadline),
        !.eligible_branches = Or(a.eligible_branches, existing.eligible_branches),
        !.min_cgpa = IF a.min_cgpa # None THEN a.min_cgpa ELSE existing.min_cgpa,
        !.eligibility_text = Or(a.eligibility_text, existing.eligibility_text),
        !.ctc_or_stipend = Or(a.ctc_or_stipend, existing.ctc_or_stipend),
        !.job_location = Or(a.job_location, existing.job_location),
        !.registration_link = Or(a.registration_link, existing.registration_link),
        !.status = a.status,
        !.confidence_score = a.confidence_score,
        !.official_source = a.official_source]
\* db_service.py:143-161: the row of a drive not found
NewDrive(rows, a) ==
    [a EXCEPT !.company_name = Title(Strip(a.company_name))] @@ [id |-> Len(rows) + 1]

\* db_service.py:81-166: the table after the call
upsert_placement_drive(rows, a) ==
    LET normalized_company == Title(Strip(a.company_name))
        hits == DriveRows(rows, normalized_company, a.batch, a.role)
    IN  IF hits # {}
        THEN LET i == CHOOSE n \in hits : \A m \in hits : n <= m
             IN  [rows EXCEPT ![i] = UpdatedDrive(rows[i], a)]
        ELSE Append(rows, NewDrive(rows, a))

\* gmail_events.py:85-94
ExistingDrives(rows) ==
    [i \in DOMAIN rows |->
        [company_name |-> rows[i].company_name,
         role |-> rows[i].role,
         registration_deadline |-> rows[i].registration_deadline,
         batch |-> rows[i].batch]]

\* ---- the mailbox: message ids and what the validation node can return for each ----
MessageIds == {"m1", "m2", "m3"}
AcmeFull == [company_name |-> Acme, role |-> SDE, batch |-> <<"2026">>,
             registration_deadline |-> Deadline1, drive_date |-> <<"2025", "-", "12", "-", "15">>,
             min_cgpa |-> <<"7.5">>, confidence_score |-> 5]
AcmeNoDeadline == [company_name |-> Acme, role |-> SDE, batch |-> <<"2026">>,
                   registration_deadline |-> None, ctc_or_stipend |-> <<"12 LPA">>,
                   confidence_score |-> 6]
AcmeLate == [company_name |-> Acme, role |-> SDE, batch |-> <<"2026">>,
             registration_deadline |-> Deadline2, confidence_score |-> 7]
AcmeAgain == [company_name |-> Acme, role |-> SDE, batch |-> <<"2026">>,
              registration_deadline |-> Deadline1, confidence_score |-> 6]
NoCompany == [company_name |-> None, role |-> SDE, confidence_score |-> 2]
\* m1 is a notice (filtered by its subject), m2 and m3 announce the same drive
Node8Returns(msg_id) ==
    CASE msg_id = "m1" -> {}
      [] msg_id = "m2" -> {NoCompany, AcmeFull}
      [] msg_id = "m3" -> {AcmeNoDeadline, AcmeLate, AcmeAgain}

\* nodes 9 and 10 on what node 8 returned (langgraph_pipeline.py:258-306)
Finish(validated, existing) ==
    IF check_duplicate(validated, existing)
    THEN [status |-> "duplicate", is_duplicate |-> TRUE, validated_data |-> validated]
    ELSE [status |-> MappedStatus, is_duplicate |-> FALSE,
          validated_data |-> placement_dict(validated)]
FilteredRun == [status |-> "filtered", is_duplicate |-> FALSE, validated_data |-> EmptyDict]
FailedRun == [status |-> "failed", is_duplicate |-> FALSE, validated_data |-> EmptyDict]
\* the final states run_langgraph_pipeline can return for a message
\* (langgraph_pipeline.py:347-389): filtered, failed in a node, or finished
run_langgraph_pipeline(msg_id, existing) ==
    IF Node8Returns(msg_id) = {} THEN {FilteredRun}
    ELSE {FailedRun} \cup {Finish(v, existing) : v \in Node8Returns(msg_id)}

\* what happens around one message: an exception before anything is stored
\* ("early"), an exception in upsert_placement_drive ("upsert"), or none
Plays(msg_id, existing) ==
    LET runs == run_langgraph_pipeline(msg_id, existing)
    IN  {[fault |-> "early", result |-> FilteredRun]}
        \cup {[fault |-> "none", result |-> r] : r \in runs}
        \cup {[fault |-> "upsert", result |-> r] :
                r \in {r \in runs : /\ r.status = MappedStatus
                                     /\ Truthy(Get(r.validated_data, "company_name"))}}

\* dict.get(k, default)
GetOr(d, k, default) == IF k \in DOMAIN d THEN d[k] ELSE default
\* gmail_events.py:235-254
UpsertArgs(validated, email_id) ==
    [company_name |-> Get(validated, "company_name"),
     source_email_id |-> email_id,
     company_logo |-> Get(validated, "company_logo"),
     role |-> Get(validated, "role"),
     drive_type |-> Get(validated, "drive_type"),
     batch |-> Get(validated, "batch"),
     drive_date |-> to_drive_date(Get(validated, "drive_date")),
     registration_deadline |-> to_registration_deadline(Get(validated, "registration_deadline")),
     eligible_branches |-> Get(validated, "eligible_branches"),
     min_cgpa |-> Get(validated, "min_cgpa"),
     eligibility_text |-> Get(validated, "eligibility_text"),
     ctc_or_stipend |-> Get(validated, "ctc_or_stipend"),
     job_location |-> Get(validated, "job_location"),
     registration_link |-> Get(validated, "registration_link"),
     status |-> GetOr(validated, "status", <<"upcoming">>),
     confidence_score |-> GetOr(validated, "confidence_score", 4),
     official_source |-> GetOr(validated, "official_source", <<"TPO Email">>)]

\* a run flagged duplicate is treated like any other
IsDuplicateRunNever(result) == FALSE
\* gmail_events.py:159
IsDuplicateRun(result) == result.is_duplicate

\* gmail_events.py:117-273, the body of the loop: tables and outcome after msg_id
ForMessage(db, msg_id, play, existing) ==
    LET result == play.result
        saved == [db EXCEPT !.emails = save_email(db.emails, msg_id)]
        validated == result.validated_data
    IN  IF play.fault = "early" THEN [db EXCEPT !.outcome = "error"]
        ELSE IF existing_email(db.emails, msg_id) THEN [db EXCEPT !.outcome = "skipped"]
        ELSE IF result.status = "filtered" THEN [saved EXCEPT !.outcome = "filtered"]
        ELSE IF IsDuplicateRun(result) THEN [saved EXCEPT !.outcome = "duplicate"]
        ELSE IF result.status \in {"failed", "error"} THEN [saved EXCEPT !.outcome = "failed"]
        ELSE IF Falsy(Get(validated, "company_name"))
             THEN [saved EXCEPT !.outcome = "no_company"]
        ELSE IF play.fault = "upsert" THEN [saved EXCEPT !.outcome = "error"]
        ELSE [saved EXCEPT
                !.placement_drives =
                    upsert_placement_drive(db.placement_drives,
                        UpsertArgs(validated, EmailId(saved.emails, msg_id))),
                !.outcome = "saved"]

\* history: the first handling of a message id that did not raise, and whether
\* the id was listed again afterwards
Note(log, msg_id, outcome) ==
    IF msg_id \in DOMAIN log
    THEN Put(log, msg_id, [log[msg_id] EXCEPT !.again = TRUE])
    ELSE IF outcome = "error" THEN log
    ELSE Put(log, msg_id, [outcome |-> outcome, again |-> FALSE])

\* one pass of the loop body over msg_id, for every one of its plays
AfterMessage(db, msg_id, plays, existing) ==
    {LET after == ForMessage(db, msg_id, play, existing)
     IN  [after EXCEPT !.handled = Note(db.handled, msg_id, after.outcome)] :
        play \in plays}

RECURSIVE MessageLoop(_, _, _)
\* gmail_events.py:116: for msg_id in message_ids; the tables the loop can end
\* with when it starts with one of dbs
MessageLoop(dbs, message_ids, existing) ==
    IF message_ids = <<>> THEN dbs
    ELSE LET plays == Plays(Head(message_ids), existing)
         IN  MessageLoop(UNION {AfterMessage(db, Head(message_ids), plays, existing) :
                                    db \in dbs},
                             Tail(message_ids), existing)

HistoryIds == {None, <<"101">>}

HookInit ==
    /\ sender = SenderTPO
    /\ subject = SubjAcme
    /\ raw_body = <<>>
    /\ api_key = None
    /\ use_gemini = TRUE
    /\ existing_drives = <<>>
    /\ is_allowed_sender = FALSE
    /\ plain_text = <<>>
    /\ clean_text = <<>>
    /\ trimmed_text = <<>>
    /\ excerpts = <<>>
    /\ regex_data = EmptyDict
    /\ gemini_data = EmptyDict
    /\ extracted_data = EmptyDict
    /\ validated_data = EmptyDict
    /\ status = "pending"
    /\ is_duplicate = FALSE
    /\ error_message = None
    /\ pc = "gmail_events"
    /\ processed_results = <<>>
    /\ merged_results = <<>>
    /\ results_in = <<>>
    /\ run = 1
    /\ first_run = <<>>
    /\ choices = <<>>
    /\ NoRows

\* db_service.get_sync_state(db, key): the value stored under the key, None if absent
get_sync_state(stored) == stored
\* db_service.set_sync_state(db, key, value): the value stored under the key afterwards
set_sync_state(stored, value) == value

\* gmail_events.py:35-300 for one notification that lists message_ids: fatal
\* is where an exception outside the loop strikes ("before" the messages are
\* listed, "after" the loop while the cursor is stored) if it does
gmail_events(message_ids) ==
    /\ pc = "gmail_events"
    /\ \/ /\ message_ids = <<>>                       \* fatal = "before"
          /\ relisted' = FALSE
          /\ UNCHANGED <<store, handled>>
       \/ \E db \in MessageLoop({[emails |-> emails, placement_drives |-> placement_drives,
                                   handled |-> handled, outcome |-> "none"]},
                                 message_ids, ExistingDrives(placement_drives)) :
            /\ emails' = db.emails
            /\ placement_drives' = db.placement_drives
            /\ handled' = db.handled
            /\ relisted' = (message_ids # <<>> /\ \A i \in DOMAIN message_ids :
                                                    message_ids[i] \in DOMAIN handled)
            /\ sync_state' \in
                  {IF fatal = "none" /\ Truthy(new_history_id)
                   THEN set_sync_state(sync_state, new_history_id)
                   ELSE get_sync_state(sync_state) :
                      new_history_id \in HistoryIds, fatal \in {"none", "after"}}
    /\ UNCHANGED <<inputs, record, pc, batch, rerun, calls, choices>>

HookNext == \E message_ids \in SeqsUpTo(MessageIds, MaxFetched) : gmail_events(message_ids)
HookSpec == HookInit /\ [][HookNext]_vars


(***************************************************************************)
(* upsert_placement_drive on its own (db_service.py:81-166): calls one     *)
(* after the other on a table that starts empty                            *)
(***************************************************************************)
MaxRows == 2                \* most rows the drive table grows to

\* no pipeline run is under way: the record of a run that has not started
NoRun ==
    /\ sender = SenderTPO
    /\ subject = SubjAcme
    /\ raw_body = <<>>
    /\ api_key = None
    /\ use_gemini = TRUE
    /\ existing_drives = <<>>
    /\ is_allowed_sender = FALSE
    /\ plain_text = <<>>
    /\ clean_text = <<>>
    /\ trimmed_text = <<>>
    /\ excerpts = <<>>
    /\ regex_data = EmptyDict
    /\ gemini_data = EmptyDict
    /\ extracted_data = EmptyDict
    /\ validated_data = EmptyDict
    /\ status = "pending"
    /\ is_duplicate = FALSE
    /\ error_message = None
    /\ processed_results = <<>>
    /\ merged_results = <<>>
    /\ results_in = <<>>
    /\ run = 1
    /\ first_run = <<>>
    /\ choices = <<>>

\* the keyword arguments of a call (db_service.py:81-100)
DriveArgs(company, batch_, role, ctc, conf) ==
    [company_name |-> company, source_email_id |-> 1, company_logo |-> None,
     role |-> role, drive_type |-> None, batch |-> batch_, drive_date |-> None,
     registration_deadline |-> None, eligible_branches |-> None, min_cgpa |-> None,
     eligibility_text |-> None, ctc_or_stipend |-> ctc, job_location |-> None,
     registration_link |-> None, status |-> <<"upcoming">>, confidence_score |-> conf,
     official_source |-> <<"TPO Email">>]
UpsertCalls ==
    {DriveArgs(c, b, r, x[1], x[2]) :
        c \in {Acme, <<" ">> \o Lower(Acme) \o <<" ">>, Beta},
        b \in {None, <<"2026">>},
        r \in {None, SDE},
        x \in {<<None, 5>>, <<<<"12 LPA">>, 7>>}}

UpsertInit ==
    /\ NoRun
    /\ NoRows
    /\ pc = "upsert_placement_drive"

\* drive = upsert_placement_drive(db, **a)
upsert_call(a) ==
    /\ pc = "upsert_placement_drive"
    /\ placement_drives' = upsert_placement_drive(placement_drives, a)
    /\ Len(placement_drives') <= MaxRows
    /\ UNCHANGED <<inputs, record, pc, batch, rerun, emails, sync_state, hook, calls, choices>>

UpsertNext == \E a \in UpsertCalls : upsert_call(a)
UpsertSpec == UpsertInit /\ [][UpsertNext]_vars

(***************************************************************************)
(* Two database sessions at work side by side (db_service.py save_email    *)
(* and upsert_placement_drive): each session makes one call, and a step is  *)
(* one statement that reads or writes the database.  A query sees what is   *)
(* committed; a commit is atomic.                                           *)
(***************************************************************************)
\* the table emails takes any row
UniqueViolationNever(rows, msg_id) == FALSE
\* email.py:27, unique=True: the insert of a second row with the id is refused
UniqueViolation(rows, msg_id) == EmailRows(rows, msg_id) # {}

\* the calls a session may make on table placement_drives
RaceCalls ==
    {DriveArgs(c, <<"2026">>, SDE, x[1], x[2]) :
        c \in {Acme, <<" ">> \o Lower(Acme) \o <<" ">>, Beta},
        x \in {<<None, 5>>, <<<<"12 LPA">>, 7>>}}

RaceInit ==
    /\ NoRun
    /\ NoRows
    /\ pc = "sessions"

Stands(p, op, at) == calls[p].op = op /\ calls[p].pc = at
RaceFrame == UNCHANGED <<inputs, record, pc, batch, rerun, sync_state, hook, choices>>

\* session p calls save_email(db, gmail_message_id = msg_id, ...)
begin_save_email(p, msg_id) ==
    /\ pc = "sessions"
    /\ Stands(p, "none", "idle")
    /\ calls' = [calls EXCEPT ![p] = [Idle EXCEPT !.op = "save_email", !.pc = "query",
                                                  !.args = [gmail_message_id |-> msg_id]]]
    /\ UNCHANGED <<emails, placement_drives>>
    /\ RaceFrame

\* db_service.py:48-54: the existence check, and db.add of the new row
save_email_query(p) ==
    /\ pc = "sessions"
    /\ Stands(p, "save_email", "query")
    /\ LET msg_id == calls[p].args.gmail_message_id
       IN  calls' = IF existing_email(emails, msg_id)
                    THEN [calls EXCEPT ![p].pc = "done", ![p].returned = EmailId(emails, msg_id)]
                    ELSE [calls EXCEPT ![p].pc = "commit"]
    /\ UNCHANGED <<emails, placement_drives>>
    /\ RaceFrame

\* db_service.py:67-73: db.commit() inserts the row, or raises IntegrityError
save_email_commit(p) ==
    /\ pc = "sessions"
    /\ Stands(p, "save_email", "commit")
    /\ LET msg_id == calls[p].args.gmail_message_id
       IN  IF UniqueViolation(emails, msg_id)
           THEN /\ calls' = [calls EXCEPT ![p].pc = "rollback", ![p].lost = TRUE]
                /\ UNCHANGED emails
           ELSE /\ emails' = Append(emails, [id |-> Len(emails) + 1,
                                             gmail_message_id |-> msg_id])
                /\ calls' = [calls EXCEPT ![p].pc = "done", ![p].returned = Len(emails) + 1]
    /\ UNCHANGED placement_drives
    /\ RaceFrame

\* db_service.py:71-76: db.rollback() and the second query
save_email_requery(p) ==
    /\ pc = "sessions"
    /\ Stands(p, "save_email", "rollback")
    /\ calls' = [calls EXCEPT ![p].pc = "done",
                              ![p].returned = EmailId(emails, calls[p].args.gmail_message_id)]
    /\ UNCHANGED <<emails, placement_drives>>
    /\ RaceFrame

\* session p calls upsert_placement_drive(db, **a)
begin_upsert(p, a) ==
    /\ pc = "sessions"
    /\ Stands(p, "none", "idle")
    /\ calls' = [calls EXCEPT ![p] = [Idle EXCEPT !.op = "upsert_placement_drive",
                                                  !.pc = "lookup", !.args = a]]
    /\ UNCHANGED <<emails, placement_drives>>
    /\ RaceFrame

\* db_service.py:110-118: the lookup; existing holds the row found, as loaded
upsert_lookup(p) ==
    /\ pc = "sessions"
    /\ Stands(p, "upsert_placement_drive", "lookup")
    /\ LET a == calls[p].args
           hits == DriveRows(placement_drives, Title(Strip(a.company_name)), a.batch, a.role)
       IN  calls' = [calls EXCEPT ![p].pc = "commit",
                        ![p].existing =
                            IF hits = {} THEN <<>>
                            ELSE <<placement_drives[CHOOSE n \in hits : \A m \in hits : n <= m]>>]
    /\ UNCHANGED <<emails, placement_drives>>
    /\ RaceFrame

\* the UPDATE of a commit: the attributes the call changed on the row it loaded
Flushed(current, loaded, a) ==
    [k \in DOMAIN current |->
        IF UpdatedDrive(loaded, a)[k] # loaded[k] THEN UpdatedDrive(loaded, a)[k]
        ELSE current[k]]

\* db_service.py:120-140 or 143-166: the attributes are set, or the row is
\* added, and db.commit() writes
upsert_commit(p) ==
    /\ pc = "sessions"
    /\ Stands(p, "upsert_placement_drive", "commit")
    /\ LET a == calls[p].args
           existing == calls[p].existing
       IN  IF existing # <<>>
           THEN /\ placement_drives' =
                      [placement_drives EXCEPT ![existing[1].id] = Flushed(@, existing[1], a)]
                /\ calls' = [calls EXCEPT ![p].pc = "done", ![p].returned = existing[1].id]
           ELSE /\ placement_drives' = Append(placement_drives, NewDrive(placement_drives, a))
                /\ calls' = [calls EXCEPT ![p].pc = "done",
                                          ![p].returned = Len(placement_drives) + 1]
    /\ UNCHANGED emails
    /\ RaceFrame

RaceNext ==
    \E p \in Sessions :
        \/ \E msg_id \in MessageIds : begin_save_email(p, msg_id)
        \/ save_email_query(p)
        \/ save_email_commit(p)
        \/ save_email_requery(p)
        \/ \E a \in RaceCalls : begin_upsert(p, a)
        \/ upsert_lookup(p)
        \/ upsert_commit(p)
RaceSpec == RaceInit /\ [][RaceNext]_vars

(***************************************************************************)
(* Properties                                                              *)
(***************************************************************************)
StageOf(s) ==
    CASE s = "pending" -> 0
      [] s = "cleaned" -> 1
      [] s = "extracted" -> 2
      [] s \in {"validated", "needs_review"} -> 3
      [] s \in {"duplicate", "ready"} -> 4
Absorbing == {"filtered", "failed"}

\* C1: the status of a run only moves forward through pending, cleaned,
\* extracted, validated/needs_review, duplicate/ready; filtered and failed are
\* absorbing, and no node sets a status of an earlier stage.
C1_StatusMonotonic ==
    [][IF status \in Absorbing
       THEN status' = status
       ELSE status' \in Absorbing \/ StageOf(status') >= StageOf(status)]_vars
\* a run that went through every stage and ended as a duplicate
C1_Witness == pc = "done" /\ status = "duplicate" /\ is_duplicate

\* C2: a run whose validated candidate has no (or an empty) company_name does
\* not end with status "ready".
C2_NoCompanyNeverReady ==
    (pc = "done" /\ Falsy(Get(validated_data, "company_name"))) => status # "ready"

TerminalStatuses == {"filtered", "failed", "duplicate", "ready"}

\* C4: every run ends, and the state a run returns has one of the statuses
\* filtered, failed, duplicate, ready (never pending, cleaned, extracted,
\* validated or needs_review).
C4_TerminalStatus ==
    /\ [](pc = "done" => status \in TerminalStatuses)
    /\ <>(pc \in {"done", "raised"})
\* a run that returned a mapped record
C4_Witness == pc = "done" /\ status = "ready" /\ Truthy(Get(validated_data, "company_name"))

\* C5: once the status is filtered or failed every later node leaves the whole
\* record unchanged; once it is duplicate the mapping node leaves status and
\* validated_data unchanged.
C5_ShortCircuit ==
    [][/\ status \in Absorbing => record' = record
       /\ (status = "duplicate" /\ pc = "map_to_model") =>
              (status' = status /\ validated_data' = validated_data)]_vars
\* validation failed on an extracted candidate and the last two nodes have run
C5_Witness == pc = "done" /\ status = "failed" /\ extracted_data # EmptyDict

AfterEnhancement == pc \in {"validation", "deduplication", "map_to_model", "done"}
AdapterCalled == gemini_data # EmptyDict
AdapterError == AdapterCalled /\ Truthy(gemini_data.extraction_error)
AdapterSuccess == AdapterCalled /\ Falsy(gemini_data.extraction_error)

\* C6: when the adapter is disabled, has no credential, raises or answers with
\* its error indicator set, the candidate after gemini_enhance_node is the
\* rule-based candidate in every field.
C6_FailureKeepsRuleBased ==
    (AfterEnhancement /\ regex_data # EmptyDict /\ (~AdapterCalled \/ AdapterError))
        => extracted_data = regex_data

\* C7: after a successful adapter call every substantive field of the merged
\* candidate is the adapter's value when that is non-null and the rule-based
\* value when it is null; no rule-based value is replaced by null.
C7_MergePolicy ==
    (AfterEnhancement /\ AdapterSuccess) =>
        \A k \in SubstantiveFields :
            /\ gemini_data[k] # None => extracted_data[k] = gemini_data[k]
            /\ gemini_data[k] = None => extracted_data[k] = regex_data[k]
            /\ regex_data[k] # None => extracted_data[k] # None
\* the adapter gave a company and no role: its company replaced the rule-based
\* one, the rule-based role stayed
C7_Witness ==
    /\ pc = "validation" /\ AdapterSuccess
    /\ gemini_data.company_name = Beta /\ regex_data.company_name = Acme
    /\ extracted_data.company_name = Beta
    /\ gemini_data.role = None /\ regex_data.role # None
    /\ extracted_data.role = regex_data.role

\* C8: after the enhancement stage confidence_score is the larger of the
\* rule-based and the adapter's confidence when the call succeeded and the
\* rule-based confidence otherwise; it is never below the rule-based one.
C8_ConfidenceMax ==
    (AfterEnhancement /\ regex_data # EmptyDict) =>
        LET rule == regex_data.confidence_score
            merged == extracted_data.confidence_score
        IN  /\ AdapterSuccess =>
                /\ merged >= rule /\ merged >= gemini_data.confidence_score
                /\ merged \in {rule, gemini_data.confidence_score}
            /\ ~AdapterSuccess => merged = rule
            /\ merged >= rule
\* a successful call whose confidence is above the rule-based one
C8_Witness ==
    /\ pc = "validation" /\ AdapterSuccess
    /\ gemini_data.confidence_score > regex_data.confidence_score
    /\ extracted_data.confidence_score = gemini_data.confidence_score

InRange(c) == 0 <= c /\ c <= KeyFieldCount
ScoreOf(d) == IF "confidence_score" \in DOMAIN d THEN {d.confidence_score} ELSE {}
Scores == ScoreOf(regex_data) \cup ScoreOf(gemini_data) \cup ScoreOf(extracted_data)
          \cup ScoreOf(validated_data)

\* C9: 0 <= confidence_score <= 1 (0..8 eighths) in the rule-based candidate,
\* the adapter's result, the merged, validated and mapped candidate, and in
\* the cross-message merge of any two such scores.
C9_ConfidenceBounds ==
    /\ \A c \in Scores : InRange(c)
    /\ \A c1, c2 \in Scores : InRange(merge_confidence(c1, c2))
\* more than eight fields were found, so the cap was applied
C9_Witness ==
    /\ pc = "done" /\ status = "ready"
    /\ NonNullCount(regex_data) > KeyFieldCount
    /\ validated_data.confidence_score = KeyFieldCount

EqualIgnoringCase(a, b) == Len(a) = Len(b) /\ \A i \in 1..Len(a) : ToLower(a[i]) = ToLower(b[i])
Unset(v) == v \in {None, EmptyStr}
\* the three conditions of the duplicate rule, for a candidate c and a stored record e
SameCompany(c, e) ==
    EqualIgnoringCase(Strip(c.company_name), Strip(e.company_name))
RolesAgree(c, e) ==
    Unset(c.role) \/ Unset(e.role) \/ EqualIgnoringCase(c.role, e.role)
DeadlinesAgree(c, e) ==
    Unset(c.registration_deadline) \/ c.registration_deadline = e.registration_deadline

\* C10: check_duplicate is true exactly when some record of the snapshot has
\* the candidate's company (ignoring case and surrounding whitespace), a role
\* equal ignoring case or one of the two roles unset/empty, and an equal
\* deadline or the candidate's deadline unset.
C10_DuplicateRule ==
    pc = "returned" =>
        (is_duplicate <=>
            \E i \in DOMAIN existing_drives :
                /\ SameCompany(validated_data, existing_drives[i])
                /\ RolesAgree(validated_data, existing_drives[i])
                /\ DeadlinesAgree(validated_data, existing_drives[i]))
\* the only record of the company has no role and the candidate's deadline
C10_Witness ==
    /\ pc = "returned" /\ is_duplicate
    /\ validated_data.role = SDE /\ validated_data.registration_deadline = Deadline1
    /\ Len(existing_drives) = 1
    /\ existing_drives[1].role = None
    /\ existing_drives[1].registration_deadline = Deadline1

(***************************************************************************)
(* Cross-message merge                                                     *)
(***************************************************************************)
HasCompany(r) == Truthy(CompanyOf(r))
\* a field is populated when it holds something: not null, not empty, not zero
Populated(v) == Truthy(v)
\* the candidates of one company group, in arrival order
Group(results, key) == SelectSeq(results, LAMBDA r : HasCompany(r) /\ CompanyKey(r) = key)
GroupKeys(results) == {CompanyKey(results[i]) : i \in {i \in DOMAIN results : HasCompany(results[i])}}
\* the value of the earliest candidate of the group in which field f is populated
EarliestPopulated(group, f) ==
    LET pop == {i \in DOMAIN group : Populated(Get(group[i].validated_data, f))}
    IN  IF pop = {} THEN None
        ELSE Get(group[CHOOSE i \in pop : \A k \in pop : i <= k].validated_data, f)

GroupMaxConf(group) ==
    CHOOSE c \in {ConfOf(group[i]) : i \in DOMAIN group} :
        \A i \in DOMAIN group : ConfOf(group[i]) <= c

\* C12: the confidence_score of every merged record is the maximum of the
\* confidence_score values of all candidates of its company group, wherever
\* in the arrival order the candidate with the maximum stands.
C12_MergedConfidenceIsMax ==
    pc = "merged" =>
        \A j \in DOMAIN merged_results :
            ConfOf(merged_results[j]) =
                GroupMaxConf(Group(results_in, CompanyKey(merged_results[j])))
\* a group of three whose best candidate arrives second
C12_Witness ==
    /\ pc = "merged"
    /\ Len(results_in) = 3
    /\ Len(merged_results) = 1
    /\ \A i \in 1..3 : HasCompany(results_in[i])
    /\ ConfOf(results_in[1]) < ConfOf(results_in[3])
    /\ ConfOf(results_in[3]) < ConfOf(results_in[2])
    /\ ConfOf(merged_results[1]) = ConfOf(results_in[2])

(***************************************************************************)
(* Repeated run                                                            *)
(***************************************************************************)
Ended == pc \in {"done", "raised"}

Validated == pc = "deduplication" /\ status \in {"validated", "needs_review"}
\* a number outside the interval (0, 10]
OutsideCgpaRange(v) ==
    v # None /\ FloatTenths(v) # -1000 /\ (FloatTenths(v) <= 0 \/ FloatTenths(v) > 100)

\* C14: whenever the candidate's min_cgpa is a number outside (0, 10] (12.5, a
\* negative number, 0), validation leaves min_cgpa unset and appends a
\* validation error, and the record goes on (its status is not failed).
C14_CgpaOutsideRangeDiscarded ==
    (Validated /\ OutsideCgpaRange(Get(extracted_data, "min_cgpa"))) =>
        /\ validated_data.min_cgpa = None
        /\ InSeq("Invalid CGPA range", validated_data.validation_errors)
        /\ status # "failed"

\* the candidate reaches validation without a company_name
NoCompanyAtValidation ==
    pc = "validation" /\ ~Skipped /\ Falsy(Get(extracted_data, "company_name"))
\* validation has returned a candidate without company_name
ReviewedWithoutCompany ==
    /\ pc \in {"deduplication", "map_to_model", "done"}
    /\ status \notin {"filtered", "failed"}
    /\ Falsy(Get(validated_data, "company_name"))

\* C15: when a candidate without company_name is validated (and the validator
\* does not raise for another reason) it gets needs_review = true and the
\* error "Missing company_name", and its status becomes needs_review, not
\* failed; no later node turns that status into failed; the run goes on
\* through the duplicate check and ends with a terminal status.
C15_NoCompanyNotAborted ==
    /\ [][(NoCompanyAtValidation /\ validation_step(FALSE)) =>
            /\ validated_data'.needs_review
            /\ InSeq("Missing company_name", validated_data'.validation_errors)
            /\ status' = "needs_review"]_vars
    /\ [][ReviewedWithoutCompany => status' # "failed"]_vars
    /\ (ReviewedWithoutCompany ~>
            (pc = "done" /\ status \in TerminalStatuses \ {"failed"}))
\* the duplicate check has passed a candidate that needs review on to the mapping
C15_Witness ==
    /\ pc = "map_to_model"
    /\ status = "needs_review"
    /\ Falsy(Get(validated_data, "company_name"))
    /\ validated_data.needs_review
    /\ InSeq("Missing company_name", validated_data.validation_errors)
    /\ ~is_duplicate

(***************************************************************************)
(* Output contract                                                         *)
(***************************************************************************)
\* C16: the validated_data of a run that ended ready (what the caller and
\* pipeline_result_to_json receive) still has the validator's
\* validation_errors list and needs_review flag.
C16_ReadyKeepsValidationOutcome ==
    (pc = "done" /\ status = "ready") =>
        /\ "validation_errors" \in DOMAIN validated_data
        /\ "needs_review" \in DOMAIN validated_data

(***************************************************************************)
(* Dates                                                                   *)
(***************************************************************************)
Iso(y, m, d) == <<y, "-", m, "-", d>>
\* the labelled date a reader finds in a line: its phrase kind and the date
LabelledDate(l) ==
    CASE l = "Apply before 11th December 2025" -> <<"deadline", Iso("2025", "12", "11")>>
      [] l = "Last date: December 11, 2025" -> <<"deadline", Iso("2025", "12", "11")>>
      [] l = "Registration closes: 5-1-2026" -> <<"deadline", Iso("2026", "01", "05")>>
      [] l = "Drive date: 15/12/2025" -> <<"drive", Iso("2025", "12", "15")>>
      [] l = "Drive date: Dec 15, 2025" -> <<"drive", Iso("2025", "12", "15")>>
      [] l = "Interview date 3rd Jan 2026" -> <<"drive", Iso("2026", "01", "03")>>
      [] l = "Drive on Dec 15, 2025" -> <<"drive", Iso("2025", "12", "15")>>
      [] OTHER -> <<"none", None>>
LabelledDates(text, kind) ==
    {LabelledDate(text[i])[2] : i \in {i \in DOMAIN text : LabelledDate(text[i])[1] = kind}}

\* C17: when the text has a date (in any of the three grammars) after a
\* deadline phrase, registration_deadline is such a date, and when it has a
\* date after a drive phrase, drive_date is such a date, both as YYYY-MM-DD;
\* "Apply before 11th December 2025" gives registration_deadline 2025-12-11
\* and "Drive on Dec 15, 2025" gives drive_date 2025-12-15.
C17_LabelledDates ==
    pc = "extracted" =>
        /\ LabelledDates(trimmed_text, "deadline") # {} =>
              regex_data.registration_deadline \in LabelledDates(trimmed_text, "deadline")
        /\ LabelledDates(trimmed_text, "drive") # {} =>
              regex_data.drive_date \in LabelledDates(trimmed_text, "drive")
        /\ trimmed_text = <<"Apply before 11th December 2025">> =>
              regex_data.registration_deadline = Iso("2025", "12", "11")
        /\ trimmed_text = <<"Drive on Dec 15, 2025">> =>
              regex_data.drive_date = Iso("2025", "12", "15")


\* C18: drive_date and registration_deadline of what the rule-based extractor
\* returns are each unset or a valid calendar date; a token with an
\* impossible day or month (31/02/2025, 12/25/2025, 45th December 2025) never
\* becomes a date value.
C18_DatesValidOrUnset ==
    pc = "extracted" =>
        /\ regex_data.drive_date = None \/ ValidDate(regex_data.drive_date)
        /\ regex_data.registration_deadline = None \/ ValidDate(regex_data.registration_deadline)

(***************************************************************************)
(* Signature truncation                                                    *)
(***************************************************************************)
SignatureMarker(l) == l = "Thanks & Regards"
HasSignature(text) == \E i \in DOMAIN text : SignatureMarker(text[i])
\* the lines of the text that stand before its first signature marker
BeforeSignature(text) ==
    LET k == CHOOSE i \in DOMAIN text :
                 SignatureMarker(text[i]) /\ \A j \in 1..(i - 1) : ~SignatureMarker(text[j])
    IN  SubSeq(text, 1, k - 1)
LinesOf(text) == {text[i] : i \in DOMAIN text}
Cleaned == pc \notin {"filter_sender", "html_to_text", "remove_noise", "raised"}
Trimmed == pc \notin {"filter_sender", "html_to_text", "remove_noise", "token_safety", "raised"}
Extracted ==
    pc \notin {"filter_sender", "html_to_text", "remove_noise", "token_safety",
               "extract_sections", "regex_extract", "raised"}

\* C19: when the plain text has a line that is a signature marker, neither
\* that line nor any line after it is in the normalized text: the normalized
\* text is made of lines that stand before the marker and is the text that
\* the same input cut off before the marker gives.  What the later stages
\* work on (the trimmed text, the excerpts, the rule-based fields and with
\* them the enhancement prompt) is therefore what the cut-off input gives.
C19_SignatureTruncates ==
    (Cleaned /\ HasSignature(plain_text) /\ (status # "failed" \/ clean_text # <<>>)) =>
        LET before == BeforeSignature(plain_text) IN
        /\ LinesOf(clean_text) \subseteq LinesOf(before)
        /\ ~HasSignature(clean_text)
        /\ clean_text = remove_noise(before)
        /\ (Trimmed /\ status # "failed") =>
              /\ trimmed_text = trim_to_token_limit(remove_noise(before), MAX_CHARS)
              /\ excerpts \in {<<>>, extract_important_sections(remove_noise(before))}
        /\ (Extracted /\ status # "failed") =>
              regex_data = extract_all_fields(
                               trim_to_token_limit(remove_noise(before), MAX_CHARS), subject)
\* a run has ended on a message whose deadline line stands after the
\* signature: the line is not in the normalized text and no deadline was found
C19_Witness ==
    /\ pc = "done"
    /\ status = "ready"
    /\ HasSignature(plain_text)
    /\ "Apply before 11th December 2025" \in LinesOf(plain_text)
    /\ "Apply before 11th December 2025" \notin LinesOf(clean_text)
    /\ clean_text # <<>>
    /\ regex_data.registration_deadline = None

\* the tables as the loop of gmail_events sees them
Tables == [emails |-> emails, placement_drives |-> placement_drives,
           handled |-> handled, outcome |-> "none"]

\* C20: once gmail_events has handled a message id without raising (filtered,
\* duplicate, failed, no company or saved), listing the same id again, in any
\* later notification and any number of times, adds no Email row and creates
\* or modifies no placement drive: the loop body leaves both tables as they
\* are for such an id, and a notification listing only such ids changes neither.
C20_RedeliveryIdempotent ==
    /\ [](\A msg_id \in DOMAIN handled :
            \A play \in Plays(msg_id, ExistingDrives(placement_drives)) :
                LET after == ForMessage(Tables, msg_id, play, ExistingDrives(placement_drives))
                IN  /\ after.emails = emails
                    /\ after.placement_drives = placement_drives)
    /\ [][relisted' =>
            /\ emails' = emails
            /\ placement_drives' = placement_drives]_vars
\* a saved message and a duplicate one were both listed again
C20_Witness ==
    \E a, b \in DOMAIN handled :
        /\ handled[a].outcome = "saved" /\ handled[a].again
        /\ handled[b].outcome = "duplicate" /\ handled[b].again
        /\ Len(placement_drives) = 1
        /\ Len(emails) >= 2

\* the key of a drive row: company_name without regard to case, batch and role
DriveKey(row) == <<Lower(row.company_name), row.batch, row.role>>
DriveKeys(rows) == {DriveKey(rows[i]) : i \in DOMAIN rows}

\* C21: after any sequence of upsert_placement_drive calls made one after the
\* other, the drive table holds at most one row per key (company_name without
\* regard to case, batch, role), keys with batch or role unset included; a call
\* whose key is already in the table updates that row and creates none: every
\* row keeps its id and key, and a row is added only under a key that was absent.
C21_OneRowPerKey ==
    /\ [](\A i, j \in DOMAIN placement_drives :
            DriveKey(placement_drives[i]) = DriveKey(placement_drives[j]) => i = j)
    /\ [][/\ Len(placement_drives') \in {Len(placement_drives), Len(placement_drives) + 1}
          /\ \A i \in DOMAIN placement_drives :
                /\ placement_drives'[i].id = placement_drives[i].id
                /\ DriveKey(placement_drives'[i]) = DriveKey(placement_drives[i])
          /\ Len(placement_drives') > Len(placement_drives) =>
                DriveKey(placement_drives'[Len(placement_drives')])
                    \notin DriveKeys(placement_drives)]_vars
\* a row whose batch and role are unset was updated by a later call that spelled
\* the company differently, next to another row of the same company
C21_Witness ==
    /\ pc = "upsert_placement_drive"
    /\ Len(placement_drives) = 2
    /\ \E i \in DOMAIN placement_drives :
          /\ DriveKey(placement_drives[i]) = <<Lower(Acme), None, None>>
          /\ placement_drives[i].ctc_or_stipend = <<"12 LPA">>
          /\ placement_drives[i].confidence_score = 5
    /\ \E j \in DOMAIN placement_drives :
          DriveKey(placement_drives[j]) = <<Lower(Acme), <<"2026">>, None>>

\* C22: after validate_extracted_data the candidate's drive_type is unset or
\* exactly one of the canonical tokens internship, fte, both, whatever the
\* spelling of the value that came in ('FTE', ' Internship ', 'Both').
C22_DriveTypeCanonical ==
    Validated =>
        Get(validated_data, "drive_type") \in {None, EmptyStr} \cup DriveTypeTokens

\* no line of the text carries a deadline label, every line carries a date
OnlyUnlabelledDeadlines(text) ==
    \A i \in DOMAIN text : LabelledDate(text[i])[1] = "drive"

\* C23: when the text has no deadline-labelled date but several dates,
\* extract_dates sets registration_deadline to the date that comes first in the
\* text, in whichever of the three grammars (numeric D/M/Y, ordinal day Month
\* Year, Month Day Year) the dates are written.
C23_FallbackFirstInText ==
    (pc = "extracted" /\ Len(trimmed_text) >= 2 /\ OnlyUnlabelledDeadlines(trimmed_text)) =>
        regex_data.registration_deadline = LabelledDate(trimmed_text[1])[2]

\* a line that opens a quoted reply, and a line that carries a quote prefix
ReplyMarker(l) == l \in {"On Mon, TPO wrote:", "> quoted text"}
QuotePrefixed(l) == l = "> quoted text"
\* a non-quoted line longer than 50 characters
LongUnquoted(l) == LineLen(l) > 50 /\ ~QuotePrefixed(l)
\* line j of the text lies after a reply marker, with no long non-quoted line
\* from that marker up to and including itself
InQuotedSection(text, j) ==
    \E k \in 1..(j - 1) :
        /\ ReplyMarker(text[k])
        /\ \A m \in (k + 1)..j : ~LongUnquoted(text[m])
Unquoted(text) == {text[j] : j \in {j \in DOMAIN text : ~InQuotedSection(text, j)}}

\* C24: once remove_noise has met a reply-marker line, every following line
\* (empty, quote-prefixed or short and unquoted) is left out of the cleaned text
\* until a non-quoted line longer than 50 characters comes.
C24_QuotedSectionDropped ==
    Cleaned =>
        \A j \in DOMAIN plain_text :
            (InQuotedSection(plain_text, j) /\ plain_text[j] \notin Unquoted(plain_text))
                => plain_text[j] \notin LinesOf(clean_text)

\* every excerpt the patterns of the highlighter find in some line of the text
SeqItems(s) == {s[i] : i \in DOMAIN s}
MatchesIn(text) ==
    UNION {SeqItems(Tagged("URL", LineURLs(text[i])))
           \cup UNION {SeqItems(Tagged("DATE", LineDates(text[i], p))) : p \in 1..3}
           \cup UNION {SeqItems(Tagged("COMPENSATION", LineMoney(text[i], p))) : p \in 1..3}
           \cup SeqItems(Tagged("CGPA", LineCgpas(text[i]))) : i \in DOMAIN text}

\* C25: the highlighter of a run reads the capped text: every excerpt in the
\* run's excerpt list is a match found in trimmed_text, so nothing the cap
\* removed shows up in the excerpts (and, through them, in the prompt).
C25_ExcerptsFromTrimmedText ==
    \A i \in DOMAIN excerpts : excerpts[i] \in MatchesIn(trimmed_text)

\* the run of a message ended ready, not duplicate and with a company name
Persistable(result) ==
    /\ result.status = "ready"
    /\ ~result.is_duplicate
    /\ Truthy(Get(result.validated_data, "company_name"))

\* C26: gmail_events calls upsert_placement_drive for a message only if its
\* run ended with status ready, is_duplicate false and a non-empty
\* company_name; for a run that ended filtered, failed or duplicate, or without
\* company_name, no drive is created or updated (the email may be saved).  In
\* every state, whatever message comes next and however its run ends, and
\* in every notification handled: a change of the drive table comes with a
\* message first handled as saved.
C26_PersistenceGate ==
    /\ [](\A msg_id \in MessageIds :
            \A play \in Plays(msg_id, ExistingDrives(placement_drives)) :
                LET after == ForMessage(Tables, msg_id, play, ExistingDrives(placement_drives))
                IN  /\ after.outcome = "saved" => Persistable(play.result)
                    /\ after.outcome # "saved" => after.placement_drives = placement_drives
                    /\ (~Persistable(play.result) /\ after.outcome \notin {"error", "skipped"})
                          => after.emails = save_email(emails, msg_id))
    /\ [][placement_drives' # placement_drives =>
            \E msg_id \in DOMAIN handled' \ DOMAIN handled :
                handled'[msg_id].outcome = "saved"]_vars
\* one message was stored without a drive for want of a company name, another
\* one made the only drive
C26_Witness ==
    \E a, b \in DOMAIN handled :
        /\ handled[a].outcome = "no_company"
        /\ handled[b].outcome = "saved"
        /\ Len(emails) = 2
        /\ Len(placement_drives) = 1
        /\ placement_drives[1].source_email_id = EmailId(emails, b)

\* the stored drive row and the candidate v announce the same drive: same
\* company and role, and the row's deadline is the one stored for v's
Reannounces(v, row) ==
    /\ Truthy(Get(v, "company_name"))
    /\ Truthy(Get(v, "registration_deadline"))
    /\ Truthy(row.registration_deadline)
    /\ Strip(Lower(row.company_name)) = Strip(Lower(v.company_name))
    /\ row.role = Get(v, "role")
    /\ row.registration_deadline = to_registration_deadline(v.registration_deadline)

\* C27: when a drive with a registration deadline is stored, a message with a
\* new id whose candidate has the same company, role and registration deadline
\* ends as a duplicate against the snapshot the webhook builds from the stored
\* drives.
C27_ReannouncementDetected ==
    \A msg_id \in MessageIds : \A v \in Node8Returns(msg_id) :
        (/\ ~existing_email(emails, msg_id)
         /\ \E i \in DOMAIN placement_drives : Reannounces(v, placement_drives[i]))
        => Finish(v, ExistingDrives(placement_drives)).is_duplicate

\* session p has returned from save_email
Saved(p) == calls[p].op = "save_email" /\ calls[p].pc = "done"

\* C28: when two save_email calls for the same gmail_message_id interleave,
\* exactly one Email row with that id exists afterwards and both calls return
\* that row; the call that loses rolls back and changes nothing.  At every
\* moment no id has two rows, a call that has returned has returned the one row
\* of its id, and the step in which a commit is refused and the step of the
\* second query leave the tables as they are.
C28_SaveEmailRace ==
    /\ [](/\ \A msg_id \in MessageIds : Cardinality(EmailRows(emails, msg_id)) <= 1
          /\ \A p \in Sessions :
                Saved(p) => EmailRows(emails, calls[p].args.gmail_message_id)
                                = {calls[p].returned}
          /\ \A p, q \in Sessions :
                (Saved(p) /\ Saved(q) /\ calls[p].args = calls[q].args)
                    => calls[p].returned = calls[q].returned)
    /\ [][\A p \in Sessions :
            (calls[p].op = "save_email" /\ (calls'[p].pc = "rollback" \/ calls[p].pc = "rollback"))
                => emails' = emails /\ placement_drives' = placement_drives]_vars
\* both sessions passed the existence check for the same id, one commit was
\* refused, and both have returned
C28_Witness ==
    /\ Saved(1) /\ Saved(2)
    /\ calls[1].args = calls[2].args
    /\ ~calls[1].lost /\ calls[2].lost
    /\ Len(emails) = 1

\* C29: when two upsert_placement_drive calls with the same (company_name,
\* batch, role) key interleave, at most one drive row with that key exists
\* afterwards.
C29_UpsertRace ==
    \A k \in DriveKeys(placement_drives) :
        Cardinality({i \in DOMAIN placement_drives : DriveKey(placement_drives[i]) = k}) <= 1

\* C30: no message is lost by the incremental sync.  At the end of every
\* gmail_events run, each message id the run fetched has an Email row, or the
\* stored gmail_history_id was not advanced to the historyId of the
\* notification: whatever list of fetched ids accounts for a run in which the
\* stored cursor moved, every id of the list has its row afterwards.
C30_NoMessageLost ==
    [][\A message_ids \in SeqsUpTo(MessageIds, MaxFetched) :
            (gmail_events(message_ids) /\ sync_state' # sync_state)
                => \A i \in DOMAIN message_ids : existing_email(emails', message_ids[i])]_vars

====
